---------------------------- MODULE Spec2Model ----------------------------
(***************************************************************************)
(* Model of the event-page scraper (lib/scrape-event, src/unnamed/part_004)*)
(* and of the HTTP endpoint that calls it (app/api/scrape-event/route.ts); *)
(* of the calls of lib/db.ts against the tables of the supabase schema;    *)
(* and of the two UI handlers that call the endpoint (components/Header,   *)
(* components/AddConferenceForm).                                          *)
(*                                                                         *)
(* Representation of values.                                               *)
(*   - A string is the sequence of its lexemes.  A lexeme is a TLA+ string *)
(*     that is either a run of word characters ([A-Za-z0-9_]) or one of    *)
(*     the separator lexemes of SepLexemes; a digit that takes part in a   *)
(*     price is a lexeme of its own.  The vocabulary is chosen so that the *)
(*     literals the code tests for ("http", "www.", ".com", ...) fall on   *)
(*     lexeme boundaries, which makes String.includes a search for a       *)
(*     contiguous run of lexemes.                                          *)
(*   - An optional value (a field that may be undefined) is a record       *)
(*     [some, v].                                                          *)
(*   - A JavaScript number is [neg, mant, exp]: (-1)^neg * mant / 10^exp,  *)
(*     with no trailing zero in the fraction.                              *)
(*   - A date string is a record giving its written form (fmt) and the     *)
(*     numbers written in it; "YYYY-MM-DD" is fmt "iso".                   *)
(*   - A page is represented by the parts of the markup that the code's    *)
(*     regular expressions read: the ld+json script blocks, the title      *)
(*     element, and the matches of each pattern.                           *)
(***************************************************************************)
EXTENDS Integers, Sequences, FiniteSets, TLC

\* const <name> = val; <rest>: F applied to the value of val
Const(val, F(_)) == CHOOSE r \in {F(x) : x \in {val}} : TRUE

VARIABLES
    pc,         \* where the POST handler is: "start", "fetch", "text", "done"
    body,       \* the request body as request.json() sees it
    tz,         \* the zone offset of the server process, in hours east of UTC
    target,     \* the url handed to scrapeEventData
    fetched,    \* the Response fetch resolved with
    outcome,    \* what scrapeEventData did: none, a returned record, or a thrown error
    responses,  \* the HTTP responses the handler has produced, in order
    extracted,  \* how many times the extractors have run over a fetched page
    arg,        \* the input of the pure function under study
    ret,        \* its result
    runs,       \* two invocations of scrapeEventData in one process
    conferences,\* table conferences: the ids of its rows
    ratings,    \* table ratings: rows [id, conference_id, stars]
    people,     \* table people: rows [id, email]
    categories, \* table categories: rows [id, name]
    offices,    \* table offices: rows [id, name]
    assigned_to,\* column conferences.assigned_to: [conference_id, person_id] where not null
    calls,      \* per client, the lib/db call it is in and how its last call ended
    header,     \* state of the Header component's scrape dialog
    form,       \* state of the AddConferenceForm component
    toasts,     \* the notifications shown, in order
    page        \* state of the data-management page (app/data/page.tsx)

\* the variables of the scraper and its endpoint, of the database, of the UI
scrapeVars == <<pc, body, tz, target, fetched, outcome, responses, extracted, arg, ret, runs>>
dbVars == <<conferences, ratings, people, categories, offices, assigned_to, calls>>
uiVars == <<header, form, toasts, page>>

vars == <<scrapeVars, dbVars, uiVars>>

-----------------------------------------------------------------------------
(* Strings as lexeme sequences *)

SepLexemes ==
    {" ", "  ", "-", ".", "/", "://", ":", ",", "&", "?", "$", "<b>", "</b>"}

Digits == {"0", "1", "2", "3", "4", "5", "6", "7", "8", "9"}

\* String.prototype.toLowerCase on the lexemes of the vocabulary that hold
\* an upper-case letter.
LowerMap ==
    [AI |-> "ai", Tech |-> "tech", Summit |-> "summit", Gala |-> "gala",
     Workshop |-> "workshop", HTTP |-> "http", Hall |-> "hall",
     Stockholm |-> "stockholm", Sweden |-> "sweden", SEK |-> "sek",
     Price |-> "price", Expo |-> "expo", Design |-> "design",
     Developer |-> "developer"]

HasUpperLexeme(t) == t \in DOMAIN LowerMap

toLowerCase(t) == IF t \in DOMAIN LowerMap THEN LowerMap[t] ELSE t

IsWordLexeme(t) == t \notin SepLexemes

\* The word lexemes of the vocabulary that hold a digit
DigitLexemes == Digits \cup {"2025", "b2b"}

\* /^[A-Za-z]+$/ and /^[a-z]+$/ on one lexeme
IsLetters(t) == IsWordLexeme(t) /\ t \notin DigitLexemes
IsLowerLetters(t) == IsLetters(t) /\ ~HasUpperLexeme(t)

RECURSIVE StrLen(_)
\* String.prototype.length
StrLen(s) == IF s = <<>> THEN 0 ELSE Len(Head(s)) + StrLen(Tail(s))

\* s holds the lexemes lit at position i
MatchAt(s, lit, i) ==
    /\ i + Len(lit) - 1 <= Len(s)
    /\ \A k \in 1..Len(lit) : s[i + k - 1] = lit[k]

\* String.prototype.includes(lit)
includes(s, lit) == \E i \in 1..Len(s) : MatchAt(s, lit, i)

\* /[A-Z]/.test(s)
HasUpper(s) == \E i \in 1..Len(s) : HasUpperLexeme(s[i])

IsSpace(t) == t \in {" ", "  "}

RECURSIVE trimStart(_)
trimStart(s) == IF s # <<>> /\ IsSpace(Head(s)) THEN trimStart(Tail(s)) ELSE s

RECURSIVE trimEnd(_)
trimEnd(s) ==
    IF s # <<>> /\ IsSpace(s[Len(s)]) THEN trimEnd(SubSeq(s, 1, Len(s) - 1)) ELSE s

\* String.prototype.trim
trim(s) == trimEnd(trimStart(s))

IsTag(t) == t \in {"<b>", "</b>"}

\* s.replace(/<[^>]+>/g, "")
stripTags(s) == SelectSeq(s, LAMBDA t : ~IsTag(t))

\* Optional values
NoStr == [some |-> FALSE, v |-> <<>>]
SomeStr(s) == [some |-> TRUE, v |-> s]

\* An optional category label
NoLabel == [some |-> FALSE, v |-> ""]
SomeLabel(c) == [some |-> TRUE, v |-> c]

\* JavaScript truthiness of an optional string: undefined and "" are falsy
Truthy(o) == o.some /\ o.v # <<>>

-----------------------------------------------------------------------------
(* Numbers *)

Zero == [neg |-> FALSE, mant |-> 0, exp |-> 0]
NoNum == [some |-> FALSE, v |-> Zero]
SomeNum(n) == [some |-> TRUE, v |-> n]

Int2Num(i) == [neg |-> i < 0, mant |-> IF i < 0 THEN -i ELSE i, exp |-> 0]

IsNegative(n) == n.neg /\ n.mant > 0

DigitVal(c) ==
    CASE c = "0" -> 0 [] c = "1" -> 1 [] c = "2" -> 2 [] c = "3" -> 3
      [] c = "4" -> 4 [] c = "5" -> 5 [] c = "6" -> 6 [] c = "7" -> 7
      [] c = "8" -> 8 [] c = "9" -> 9

RECURSIVE DigitsVal(_, _)
\* the value of the decimal digits ds, continuing from acc
DigitsVal(ds, acc) ==
    IF ds = <<>> THEN acc ELSE DigitsVal(Tail(ds), 10 * acc + DigitVal(Head(ds)))

RECURSIVE DropTrailingZeros(_)
DropTrailingZeros(ds) ==
    IF ds # <<>> /\ ds[Len(ds)] = "0"
    THEN DropTrailingZeros(SubSeq(ds, 1, Len(ds) - 1))
    ELSE ds

\* parseFloat of "<int>.<frac>" with both parts runs of digits, not both empty
parseFloat(int, frac) ==
    LET f == DropTrailingZeros(frac)
    IN  [neg |-> FALSE, mant |-> DigitsVal(f, DigitsVal(int, 0)), exp |-> Len(f)]

-----------------------------------------------------------------------------
(* parsePrice *)

\* A price as it stands in an offer: a JSON number, a JSON string, or no value
NumPrice(i) == [k |-> "num", n |-> Int2Num(i), s |-> <<>>]
StrPrice(s) == [k |-> "str", n |-> Zero, s |-> s]
NoPrice == [k |-> "undef", n |-> Zero, s |-> <<>>]

\* JavaScript truthiness of a price value: undefined, 0 and "" are falsy
TruthyPrice(p) ==
    \/ p.k = "num" /\ p.n.mant # 0
    \/ p.k = "str" /\ p.s # <<>>

RECURSIVE RunEnd(_, _, _)
\* the index of the last lexeme of the longest run of lexemes of S that
\* starts at i (i - 1 when s[i] is not in S): a greedy S*
RunEnd(s, i, S) ==
    IF i <= Len(s) /\ s[i] \in S THEN RunEnd(s, i + 1, S) ELSE i - 1

parsePriceString(s) ==
    LET starts == {i \in 1..Len(s) : s[i] \in Digits \cup {","}}
    IN  IF starts = {} THEN NoNum
        ELSE LET i == CHOOSE x \in starts : \A y \in starts : x <= y
                 j == RunEnd(s, i, Digits \cup {","})
                 dot == j + 1 <= Len(s) /\ s[j + 1] = "."
                 e == IF dot THEN RunEnd(s, j + 2, Digits) ELSE j
                 \* priceMatch[0].replace(/,/g, "")
                 int == SelectSeq(SubSeq(s, i, j), LAMBDA c : c # ",")
                 frac == IF dot THEN SubSeq(s, j + 2, e) ELSE <<>>
             IN  \* parseFloat gives NaN when no digit is left
                 IF int = <<>> /\ frac = <<>> THEN NoNum
                 ELSE SomeNum(parseFloat(int, frac))

parsePrice(p) ==
    IF p.k = "num" THEN SomeNum(p.n)
    ELSE IF ~TruthyPrice(p) THEN NoNum
    ELSE parsePriceString(p.s)

-----------------------------------------------------------------------------
(* parseDate *)

\* A date string.  fmt is the written form; y, a, b are the numbers in it:
\*   "iso"      y-a-b               "isoT"   y-a-bThh:00:00
\*   "isoZ"     y-a-bThh:00:00Z     "isoOff" y-a-bThh:00:00+off:00
\*   "slash"    a/b/y               "dash"   a-b-y          "dot"  a.b.y
\*   "ymdSlash" y/a/b               "text"   no date at all
\* Two-digit fields are written zero-padded.
DateStr(fmt, y, a, b, hh, off) ==
    [fmt |-> fmt, y |-> y, a |-> a, b |-> b, hh |-> hh, off |-> off]

IsoDate(y, m, d) == DateStr("iso", y, m, d, 0, 0)
NoDate == [some |-> FALSE, v |-> IsoDate(0, 1, 1)]
SomeDate(d) == [some |-> TRUE, v |-> d]

DaysIn(y, m) ==
    IF m = 2 THEN (IF y % 4 = 0 /\ (y % 100 # 0 \/ y % 400 = 0) THEN 29 ELSE 28)
    ELSE IF m \in {4, 6, 9, 11} THEN 30 ELSE 31

PrevDay(y, m, d) ==
    IF d > 1 THEN <<y, m, d - 1>>
    ELSE IF m > 1 THEN <<y, m - 1, DaysIn(y, m - 1)>>
    ELSE <<y - 1, 12, 31>>

NextDay(y, m, d) ==
    IF d < DaysIn(y, m) THEN <<y, m, d + 1>>
    ELSE IF m < 12 THEN <<y, m + 1, 1>>
    ELSE <<y + 1, 1, 1>>

\* date.toISOString().split("T")[0] of the instant that is hh:00 on y-m-d in
\* a zone off hours east of UTC (|off| < 24, 0 <= hh < 24)
UtcDate(y, m, d, hh, off) ==
    LET h == hh - off
        t == IF h < 0 THEN PrevDay(y, m, d)
             ELSE IF h >= 24 THEN NextDay(y, m, d)
             ELSE <<y, m, d>>
    IN  IsoDate(t[1], t[2], t[3])

ValidYMD(y, m, d) == m \in 1..12 /\ d \in 1..DaysIn(y, m)

\* new Date(dateStr) that reads a date alone as local time
nativeDateLocalTime(s, zone) ==
    IF s.fmt = "iso" /\ ValidYMD(s.y, s.a, s.b)
    THEN SomeDate(UtcDate(s.y, s.a, s.b, 0, zone)) ELSE NoDate

\* new Date(dateStr), then isValid and toISOString().split("T")[0].
\* ES5 forms: a date alone is UTC, a date-time without zone is local time.
\* Other numeric forms go to the engine's legacy parser, which reads three
\* numbers as month, day, year (year first when the first is no day) in
\* local time.
nativeDate(s, zone) ==
    CASE s.fmt = "iso" ->
            IF ValidYMD(s.y, s.a, s.b) THEN SomeDate(IsoDate(s.y, s.a, s.b)) ELSE NoDate
      [] s.fmt = "isoT" ->
            IF ValidYMD(s.y, s.a, s.b)
            THEN SomeDate(UtcDate(s.y, s.a, s.b, s.hh, zone)) ELSE NoDate
      [] s.fmt = "isoZ" ->
            IF ValidYMD(s.y, s.a, s.b)
            THEN SomeDate(UtcDate(s.y, s.a, s.b, s.hh, 0)) ELSE NoDate
      [] s.fmt = "isoOff" ->
            IF ValidYMD(s.y, s.a, s.b)
            THEN SomeDate(UtcDate(s.y, s.a, s.b, s.hh, s.off)) ELSE NoDate
      [] s.fmt \in {"slash", "dash", "dot"} ->
            IF ValidYMD(s.y, s.a, s.b)
            THEN SomeDate(UtcDate(s.y, s.a, s.b, 0, zone)) ELSE NoDate
      [] s.fmt = "ymdSlash" ->
            IF ValidYMD(s.y, s.a, s.b)
            THEN SomeDate(UtcDate(s.y, s.a, s.b, 0, zone)) ELSE NoDate
      [] OTHER -> NoDate

\* The format strings of the formats array, in order
formats ==
    <<"yyyy-MM-dd", "yyyy-MM-dd'T'HH:mm:ss", "yyyy-MM-dd'T'HH:mm:ss'Z'",
      "MM/dd/yyyy", "dd/MM/yyyy", "dd-MM-yyyy">>

\* date-fns parse(dateStr, format, new Date()) followed by isValid and
\* toISOString().split("T")[0]: the fields are read in local time
parseFormat(s, format, zone) ==
    CASE format = "yyyy-MM-dd" /\ s.fmt = "iso" /\ ValidYMD(s.y, s.a, s.b) ->
            SomeDate(UtcDate(s.y, s.a, s.b, 0, zone))
      [] format = "yyyy-MM-dd'T'HH:mm:ss" /\ s.fmt = "isoT" /\ ValidYMD(s.y, s.a, s.b) ->
            SomeDate(UtcDate(s.y, s.a, s.b, s.hh, zone))
      [] format = "yyyy-MM-dd'T'HH:mm:ss'Z'" /\ s.fmt = "isoZ" /\ ValidYMD(s.y, s.a, s.b) ->
            SomeDate(UtcDate(s.y, s.a, s.b, s.hh, zone))
      [] format = "MM/dd/yyyy" /\ s.fmt = "slash" /\ ValidYMD(s.y, s.a, s.b) ->
            SomeDate(UtcDate(s.y, s.a, s.b, 0, zone))
      [] format = "dd/MM/yyyy" /\ s.fmt = "slash" /\ ValidYMD(s.y, s.b, s.a) ->
            SomeDate(UtcDate(s.y, s.b, s.a, 0, zone))
      [] format = "dd-MM-yyyy" /\ s.fmt = "dash" /\ ValidYMD(s.y, s.b, s.a) ->
            SomeDate(UtcDate(s.y, s.b, s.a, 0, zone))
      [] OTHER -> NoDate

RECURSIVE tryFormats(_, _, _)
tryFormats(s, i, zone) ==
    IF i > Len(formats) THEN NoDate
    ELSE Const(parseFormat(s, formats[i], zone), LAMBDA r :
            IF r.some THEN r ELSE tryFormats(s, i + 1, zone))

\* parseDate of an optional date string, in a process whose zone is `zone`
parseDate(o, zone) ==
    IF ~o.some THEN NoDate
    ELSE Const(nativeDate(o.v, zone), LAMBDA isoDate :
            IF isoDate.some THEN isoDate
            ELSE Const(tryFormats(o.v, 1, zone), LAMBDA parsed :
                    IF parsed.some THEN parsed ELSE nativeDate(o.v, zone)))

-----------------------------------------------------------------------------
(* isUrl *)

\* /^https?:\/\//i.test(s)
StartsWithHttpScheme(s) ==
    /\ s # <<>>
    /\ toLowerCase(s[1]) = "http"
    /\ \/ MatchAt(s, <<"://">>, 2)
       \/ MatchAt(s, <<"s", "://">>, 2) \/ MatchAt(s, <<"S", "://">>, 2)

\* s.match(/^[a-z]+:\/\//i) !== null: a run of letters, then "://"
StartsWithAnyScheme(s) ==
    LET e == RunEnd(s, 1, {t \in {s[i] : i \in 1..Len(s)} : IsLetters(t)})
    IN  e >= 1 /\ MatchAt(s, <<"://">>, e + 1)

isUrl(s) ==
    \/ StartsWithHttpScheme(s)
    \/ includes(s, <<"www", ".">>)
    \/ includes(s, <<".", "com">>)
    \/ includes(s, <<".", "se">>)
    \/ includes(s, <<".", "org">>)
    \/ StartsWithAnyScheme(s)

-----------------------------------------------------------------------------
(* extractLocationFromHtml *)

\* The patterns of extractLocationFromHtml, numbered in the order the code
\* tries them:
\*    1..3   metaLocationPatterns (og:locality, location, geo.placename)
\*    4..6   dataLocationPatterns (data-location, data-venue, itemprop)
\*    7      whereInText ("_Where?_" in the visible text)
\*    8      wherePattern ("Where?" in the visible text)
\*    9      addressInText (the three groups joined by ", ")
\*    10, 11 textContentPatterns (the groups joined by ", ")
\*    12     keywordPatterns
\* A page's location matches are a sequence of [pat, text]: text is what
\* pattern pat captures at one of its matches, in document order.
LocMatch(pat, text) == [pat |-> pat, text |-> text]

matchesOf(locs, pat) == SelectSeq(locs, LAMBDA m : m.pat = pat)

\* location.match(/^(date|time|when|price|cost|ticket|register|click|here)$/i)
IsStopWord(s) ==
    /\ Len(s) = 1
    /\ toLowerCase(s[1]) \in
         {"date", "time", "when", "price", "cost", "ticket", "register", "click", "here"}

\* /^[a-z-]+$/
IsCssClass(s) == s # <<>> /\ \A i \in 1..Len(s) : IsLowerLetters(s[i]) \/ s[i] = "-"

\* /^[a-z-]+\s+[a-z-]+$/
IsCssClasses(s) ==
    \E i \in 2..(Len(s) - 1), j \in 2..(Len(s) - 1) :
        /\ i <= j
        /\ \A k \in i..j : IsSpace(s[k])
        /\ IsCssClass(SubSeq(s, 1, i - 1))
        /\ IsCssClass(SubSeq(s, j + 1, Len(s)))

\* The test each group of patterns applies to the text of a match
passesMeta(location) ==
    ~isUrl(location) /\ StrLen(location) > 3 /\ StrLen(location) < 200

passesWhere(location) ==
    /\ StrLen(location) > 5 /\ StrLen(location) < 200
    /\ ~isUrl(location)
    /\ HasUpper(location)
    /\ ~IsStopWord(location)

passesAddress(location) ==
    StrLen(location) > 10 /\ StrLen(location) < 200 /\ ~isUrl(location)

passesTextContent(location) ==
    /\ ~(\/ includes(location, <<"class", "=">>)
         \/ includes(location, <<"header", "-">>)
         \/ includes(location, <<"style", "-">>)
         \/ IsCssClass(location))
    /\ StrLen(location) > 5 /\ StrLen(location) < 200
    /\ ~isUrl(location)
    /\ HasUpper(location)

passesKeyword(location) ==
    /\ ~(\/ includes(location, <<"class", "=">>)
         \/ includes(location, <<"header", "-">>)
         \/ includes(location, <<"style", "-">>)
         \/ includes(location, <<"container">>)
         \/ includes(location, <<"cover", "-">>)
         \/ IsCssClass(location)
         \/ IsCssClasses(location))
    /\ StrLen(location) > 5 /\ StrLen(location) < 200
    /\ ~isUrl(location)
    /\ HasUpper(location)

\* What pattern pat yields: a pattern without the g flag looks at its first
\* match only, the others at every match in order
RECURSIVE firstPassing(_, _)
firstPassing(ms, pat) ==
    IF ms = <<>> THEN NoStr
    ELSE Const(CASE pat \in 4..6 -> trim(stripTags(Head(ms).text))
                 [] pat \in 10..11 -> Head(ms).text
                 [] OTHER -> trim(Head(ms).text),
               LAMBDA location :
            IF CASE pat \in 1..6 -> passesMeta(location)
                 [] pat \in 7..8 -> passesWhere(location)
                 [] pat = 9 -> passesAddress(location)
                 [] pat \in 10..11 -> passesTextContent(location)
                 [] OTHER -> passesKeyword(location)
            THEN SomeStr(location)
            ELSE IF pat \in 10..12 THEN firstPassing(Tail(ms), pat)
            ELSE NoStr)

RECURSIVE tryPatterns(_, _)
tryPatterns(locs, pat) ==
    IF pat > 12 THEN NoStr
    ELSE Const(firstPassing(matchesOf(locs, pat), pat), LAMBDA r :
            IF r.some THEN r ELSE tryPatterns(locs, pat + 1))

extractLocationFromHtml(html) == tryPatterns(html.locs, 1)

-----------------------------------------------------------------------------
(* detectCategories *)

\* categoryKeywords, in declaration order; a keyword is the sequence of its
\* words and of the separators between them
categoryKeywords == <<
    [name |-> "Technology", keywords |-> <<
        <<"tech">>, <<"technology">>, <<"software">>, <<"programming">>,
        <<"coding">>, <<"developer">>, <<"dev">>, <<"javascript">>,
        <<"python">>, <<"react">>, <<"node">>, <<"web">>, <<"mobile">>,
        <<"app">>, <<"api">>, <<"ai">>,
        <<"artificial", " ", "intelligence">>,
        <<"machine", " ", "learning">>, <<"ml">>, <<"data", " ", "science">>,
        <<"cybersecurity">>, <<"cloud">>, <<"devops">>, <<"blockchain">>,
        <<"crypto">>, <<"iot">>, <<"frontend">>, <<"backend">>,
        <<"fullstack">>, <<"full", "-", "stack">>, <<"agile">>, <<"scrum">>>>],
    [name |-> "Design", keywords |-> <<
        <<"design">>, <<"ui">>, <<"ux">>, <<"user", " ", "experience">>,
        <<"user", " ", "interface">>, <<"graphic", " ", "design">>,
        <<"visual", " ", "design">>, <<"product", " ", "design">>,
        <<"interaction", " ", "design">>, <<"web", " ", "design">>,
        <<"branding">>, <<"typography">>, <<"illustration">>,
        <<"animation">>, <<"figma">>, <<"sketch">>, <<"adobe">>,
        <<"photoshop">>, <<"illustrator">>, <<"service", " ", "design">>,
        <<"content", " ", "design">>>>],
    [name |-> "Business", keywords |-> <<
        <<"business">>, <<"entrepreneurship">>, <<"startup">>,
        <<"leadership">>, <<"management">>, <<"strategy">>, <<"marketing">>,
        <<"sales">>, <<"finance">>, <<"investment">>,
        <<"venture", " ", "capital">>, <<"consulting">>, <<"networking">>,
        <<"innovation">>, <<"growth">>, <<"scale">>>>],
    [name |-> "Data & Analytics", keywords |-> <<
        <<"data">>, <<"analytics">>, <<"big", " ", "data">>,
        <<"business", " ", "intelligence">>, <<"bi">>, <<"sql">>,
        <<"database">>, <<"data", " ", "engineering">>,
        <<"data", " ", "analysis">>, <<"statistics">>, <<"metrics">>,
        <<"dashboard">>, <<"reporting">>, <<"etl">>>>],
    [name |-> "Product Management", keywords |-> <<
        <<"product">>, <<"product", " ", "management">>, <<"pm">>,
        <<"product", " ", "owner">>, <<"roadmap">>, <<"feature">>,
        <<"requirements">>, <<"user", " ", "story">>, <<"backlog">>,
        <<"sprint">>>>],
    [name |-> "Marketing", keywords |-> <<
        <<"marketing">>, <<"digital", " ", "marketing">>, <<"seo">>,
        <<"sem">>, <<"social", " ", "media">>, <<"content">>, <<"brand">>,
        <<"advertising">>, <<"campaign">>, <<"email", " ", "marketing">>,
        <<"ppc">>, <<"cmo">>, <<"cro">>>>],
    [name |-> "Sales", keywords |-> <<
        <<"sales">>, <<"b2b">>, <<"b2c">>, <<"account", " ", "management">>,
        <<"customer", " ", "success">>, <<"crm">>, <<"revenue">>,
        <<"pipeline">>, <<"deal">>, <<"closing">>>>],
    [name |-> "HR & People", keywords |-> <<
        <<"hr">>, <<"human", " ", "resources">>, <<"recruiting">>,
        <<"talent">>, <<"people">>, <<"culture">>, <<"diversity">>,
        <<"inclusion">>, <<"team", " ", "building">>, <<"employee">>>>],
    [name |-> "Finance", keywords |-> <<
        <<"finance">>, <<"accounting">>, <<"cfo">>,
        <<"financial", " ", "planning">>, <<"budget">>, <<"forecast">>,
        <<"tax">>, <<"audit">>, <<"compliance">>>>],
    [name |-> "Healthcare", keywords |-> <<
        <<"healthcare">>, <<"health">>, <<"medical">>, <<"pharma">>,
        <<"biotech">>, <<"clinical">>, <<"patient">>, <<"hospital">>,
        <<"nursing">>>>],
    [name |-> "Education", keywords |-> <<
        <<"education">>, <<"learning">>, <<"training">>, <<"workshop">>,
        <<"course">>, <<"university">>, <<"school">>, <<"student">>,
        <<"teacher">>, <<"academic">>>>],
    [name |-> "Conference", keywords |-> <<
        <<"conference">>, <<"summit">>, <<"convention">>, <<"expo">>,
        <<"exhibition">>, <<"trade", " ", "show">>, <<"meetup">>,
        <<"gathering">>, <<"forum">>>>],
    [name |-> "Workshop", keywords |-> <<
        <<"workshop">>, <<"training">>, <<"bootcamp">>, <<"course">>,
        <<"class">>, <<"seminar">>, <<"tutorial">>, <<"hands", "-", "on">>>>]
>>

RECURSIVE mergeWords(_)
\* The words of a string: adjacent word lexemes form one word
mergeWords(s) ==
    IF Len(s) < 2 THEN s
    ELSE IF IsWordLexeme(s[1]) /\ IsWordLexeme(s[2])
         THEN mergeWords(<<s[1] \o s[2]>> \o SubSeq(s, 3, Len(s)))
         ELSE <<s[1]>> \o mergeWords(Tail(s))

\* [name || "", description || "", url || ""].join(" ").toLowerCase()
searchText(eventData) ==
    Const(eventData.name.v \o <<" ">> \o eventData.description.v
            \o <<" ">> \o eventData.url.v,
          LAMBDA joined :
            mergeWords([i \in 1..Len(joined) |-> toLowerCase(joined[i])]))

RECURSIVE countMatches(_, _, _)
\* searchText.match(new RegExp(`\\b${keyword}\\b`, "gi")).length, scanning
\* from word i: a keyword starts and ends with a word, so \b holds exactly
\* at the ends of the words of text
countMatches(text, keyword, i) ==
    IF i > Len(text) THEN 0
    ELSE IF MatchAt(text, keyword, i)
         THEN 1 + countMatches(text, keyword, i + Len(keyword))
         ELSE countMatches(text, keyword, i + 1)

RECURSIVE sumMatches(_, _, _)
\* lines 486-494: the score of a category.  A keyword whose first word is no
\* word of the text has no match.
sumMatches(text, keywords, k) ==
    IF k > Len(keywords) THEN 0
    ELSE (IF \E i \in 1..Len(text) : text[i] = keywords[k][1]
          THEN countMatches(text, keywords[k], 1) ELSE 0)
         + sumMatches(text, keywords, k + 1)

\* scoreOf counting the first keyword of the category only
scoreOfFirstKeyword(text, c) ==
    countMatches(text, categoryKeywords[c].keywords[1], 1)

scoreOf(text, c) == sumMatches(text, categoryKeywords[c].keywords, 1)

RECURSIVE insertByScore(_, _)
\* One step of the stable sort by (a, b) => b - a: e goes after every entry
\* whose score is not smaller
insertByScore(sorted, e) ==
    IF sorted = <<>> THEN <<e>>
    ELSE IF Head(sorted).score >= e.score
         THEN <<Head(sorted)>> \o insertByScore(Tail(sorted), e)
         ELSE <<e>> \o sorted

RECURSIVE sortByScore(_, _)
sortByScore(entries, sorted) ==
    IF entries = <<>> THEN sorted
    ELSE sortByScore(Tail(entries), insertByScore(sorted, Head(entries)))

\* lines 483-499: the categories with score > 0, in declaration order
categoryScores(text) ==
    SelectSeq([c \in 1..Len(categoryKeywords) |->
                 [category |-> categoryKeywords[c].name, score |-> scoreOf(text, c)]],
              LAMBDA e : e.score > 0)

\* sortedCategories without the sort: the entries in declaration order
sortedCategoriesUnsorted(text) == categoryScores(text)

\* lines 502-504
sortedCategories(text) ==
    SelectSeq(sortByScore(categoryScores(text), <<>>), LAMBDA e : e.score > 0)

detectCategories(eventData) ==
    Const(sortedCategories(searchText(eventData)), LAMBDA sorted :
        IF sorted = <<>>
        THEN [primary |-> NoLabel, suggestions |-> <<>>]
        ELSE [primary |-> SomeLabel(sorted[1].category),
              suggestions |->
                  [i \in 1..(IF Len(sorted) < 5 THEN Len(sorted) ELSE 5)
                     |-> sorted[i].category]])

-----------------------------------------------------------------------------
(* ScrapedEventData and the linked-data values it is read from *)

\* const eventData: ScrapedEventData = {}
EmptyEvent ==
    [name |-> NoStr, location |-> NoStr, start_date |-> NoDate, end_date |-> NoDate,
     price |-> NoNum, description |-> NoStr, url |-> NoStr,
     category |-> NoLabel, suggestedCategories |-> <<>>]

\* A JSON value that is a string, an array of strings, or absent
Absent == [k |-> "undef", v |-> <<>>]
Scalar(s) == [k |-> "str", v |-> <<s>>]
Array(ss) == [k |-> "arr", v |-> ss]

\* if (x) ... typeof x === "string" ? x : x[0]
\* "" is falsy; an array is truthy, and [][0] is undefined
firstOf(x) ==
    CASE x.k = "str" /\ x.v[1] # <<>> -> SomeStr(x.v[1])
      [] x.k = "arr" /\ x.v # <<>> -> SomeStr(x.v[1])
      [] OTHER -> NoStr

TruthyValue(x) == (x.k = "str" /\ x.v[1] # <<>>) \/ x.k = "arr"

\* isEventType knowing the bare token only
isEventTypeBareToken(type) == type.k = "str" /\ type.v[1] = "Event"

\* The "@type" of an entry: a string, an array of strings, or absent
isEventType(type) ==
    \/ type.k = "str" /\ type.v[1] = "Event"
    \/ type.k = "str" /\ type.v[1] = "https://schema.org/Event"
    \/ type.k = "arr" /\ \E i \in 1..Len(type.v) : type.v[i] = "Event"

\* A PostalAddress value: each part an optional string
NoAddress ==
    [some |-> FALSE, streetAddress |-> NoStr, addressLocality |-> NoStr,
     addressRegion |-> NoStr, postalCode |-> NoStr, addressCountry |-> NoStr]

Address(street, locality, region, postal, country) ==
    [some |-> TRUE, streetAddress |-> street, addressLocality |-> locality,
     addressRegion |-> region, postalCode |-> postal, addressCountry |-> country]

\* The "location" of an entry: a string, a Place object, or absent
NoLocation == [k |-> "undef", s |-> <<>>, name |-> Absent, address |-> NoAddress]
LocationString(s) == [k |-> "str", s |-> s, name |-> Absent, address |-> NoAddress]
Place(name, address) == [k |-> "obj", s |-> <<>>, name |-> name, address |-> address]

RECURSIVE join(_)
\* parts.join(", ")
join(parts) ==
    IF parts = <<>> THEN <<>>
    ELSE IF Len(parts) = 1 THEN parts[1]
    ELSE parts[1] \o <<",", " ">> \o join(Tail(parts))

\* the parts pushed from addr, in order; only truthy ones are pushed
addressParts(addr) ==
    LET all == <<addr.streetAddress, addr.addressLocality, addr.addressRegion,
                 addr.postalCode, addr.addressCountry>>
        kept == SelectSeq(all, Truthy)
    IN  [i \in 1..Len(kept) |-> kept[i].v]

\* lines 49-80: the location of the event
eventLocation(location) ==
    CASE location.k = "str" /\ location.s # <<>> -> SomeStr(location.s)
      [] location.k = "obj" /\ TruthyValue(location.name) ->
            Const(firstOf(location.name), LAMBDA locationName :
                IF location.address.some
                THEN SomeStr(join((IF Truthy(locationName)
                                   THEN <<locationName.v>> ELSE <<>>)
                                  \o addressParts(location.address)))
                ELSE locationName)
      [] location.k = "obj" /\ location.address.some ->
            SomeStr(join(addressParts(location.address)))
      [] OTHER -> NoStr

\* The "offers" of an entry: one offer, an array of offers, or absent.  An
\* offer is an object with a price, or (in an array) JSON null.
Offer(price) == [null |-> FALSE, price |-> price]
NullOffer == [null |-> TRUE, price |-> NoPrice]
NoOffers == [k |-> "undef", v |-> <<>>]
OneOffer(o) == [k |-> "one", v |-> <<o>>]
OfferArray(os) == [k |-> "arr", v |-> os]

RECURSIVE offersPrice(_)
\* lines 97-105: [threw, price]; reading .price of null throws a TypeError
offersPrice(offers) ==
    IF offers = <<>> THEN [threw |-> FALSE, price |-> NoNum]
    ELSE IF Head(offers).null THEN [threw |-> TRUE, price |-> NoNum]
    ELSE Const(IF TruthyPrice(Head(offers).price)
               THEN parsePrice(Head(offers).price) ELSE NoNum,
               LAMBDA price :
            IF price.some THEN [threw |-> FALSE, price |-> price]
            ELSE offersPrice(Tail(offers)))

\* An entry of a linked-data block: JSON null, or an object
NullEntry ==
    [null |-> TRUE, type |-> Absent, name |-> Absent, location |-> NoLocation,
     startDate |-> NoDate, endDate |-> NoDate, offers |-> NoOffers,
     description |-> Absent, url |-> Absent]

Entry(type, name, location, startDate, endDate, offers, description, url) ==
    [null |-> FALSE, type |-> type, name |-> name, location |-> location,
     startDate |-> startDate, endDate |-> endDate, offers |-> offers,
     description |-> description, url |-> url]

\* A script block of type application/ld+json: text that JSON.parse
\* rejects, one JSON value, or a JSON array
MalformedBlock == [k |-> "malformed", items |-> <<>>]
ObjectBlock(e) == [k |-> "object", items |-> <<e>>]
ArrayBlock(es) == [k |-> "array", items |-> es]

-----------------------------------------------------------------------------
(* parseSchemaOrgJsonLd *)

\* lines 41-120: the record built from an entry whose type is Event
eventDataOf(schema, zone) ==
    [EmptyEvent EXCEPT
        !.name = firstOf(schema.name),
        !.location = eventLocation(schema.location),
        !.start_date = parseDate(schema.startDate, zone),
        !.end_date = parseDate(schema.endDate, zone),
        !.price = offersPrice(schema.offers.v).price,
        !.description = firstOf(schema.description),
        !.url = firstOf(schema.url)]

NotFound == [found |-> FALSE, data |-> EmptyEvent]
Found(eventData) == [found |-> TRUE, data |-> eventData]

RECURSIVE scanSchemas(_, _)
\* lines 35-122 over the entries of one block: "none" when no entry is an
\* Event, "threw" when an exception ends the block, "event" with the record
scanSchemas(schemas, zone) ==
    IF schemas = <<>> THEN [k |-> "none", data |-> EmptyEvent]
    ELSE Const(Head(schemas), LAMBDA schema :
            IF schema.null THEN [k |-> "threw", data |-> EmptyEvent]
            ELSE IF isEventType(schema.type)
                 THEN IF offersPrice(schema.offers.v).threw
                      THEN [k |-> "threw", data |-> EmptyEvent]
                      ELSE [k |-> "event", data |-> eventDataOf(schema, zone)]
                 ELSE scanSchemas(Tail(schemas), zone))

RECURSIVE scanBlocks(_, _)
\* scanBlocks giving up at the first block that does not parse
scanBlocksUntilMalformed(matches, zone) ==
    IF matches = <<>> THEN NotFound
    ELSE IF Head(matches).k = "malformed" THEN NotFound
    ELSE Const(scanSchemas(Head(matches).items, zone), LAMBDA r :
            IF r.k = "event" THEN Found(r.data)
            ELSE scanBlocks(Tail(matches), zone))

\* lines 28-127: a block that does not parse, or in which an exception is
\* thrown, is skipped
scanBlocks(matches, zone) ==
    IF matches = <<>> THEN NotFound
    ELSE IF Head(matches).k = "malformed" THEN scanBlocks(Tail(matches), zone)
    ELSE Const(scanSchemas(Head(matches).items, zone), LAMBDA r :
            IF r.k = "event" THEN Found(r.data)
            ELSE scanBlocks(Tail(matches), zone))

parseSchemaOrgJsonLd(html, zone) == scanBlocks(html.blocks, zone)

-----------------------------------------------------------------------------
(* parseHtmlFallback *)

\* A fetched page, as the patterns see it:
\*   blocks        the application/ld+json script blocks, in document order
\*   title         the content of the first title element, if there is one
\*   dateLabeled   group 1 of the first match of datePatterns[0], if any
\*   dateBare      group 1 of the first match of datePatterns[1], if any
\*   locs          the matches of the location patterns
\*   priceLabeled  the texts of all matches of pricePatterns[0], in order
\*   priceCurrency the texts of all matches of pricePatterns[1], in order
Page(blocks, title, dateLabeled, dateBare, locs, priceLabeled, priceCurrency) ==
    [blocks |-> blocks, title |-> title, dateLabeled |-> dateLabeled,
     dateBare |-> dateBare, locs |-> locs, priceLabeled |-> priceLabeled,
     priceCurrency |-> priceCurrency]

\* lines 539-548: the first match of a pattern is parsed; the second
\* pattern is tried when the first has no match or its match does not parse
fallbackDate(html, zone) ==
    Const(parseDate(html.dateLabeled, zone), LAMBDA d1 :
        IF d1.some THEN d1 ELSE parseDate(html.dateBare, zone))

\* html.match(pattern) with the g flag is the array of the texts of all
\* matches, so match[1] is the text of the second match (undefined when
\* there is one match only)
secondMatch(ms) == IF Len(ms) >= 2 THEN StrPrice(ms[2]) ELSE NoPrice

\* lines 562-571
fallbackPrice(html) ==
    Const(IF html.priceLabeled # <<>>
          THEN parsePrice(secondMatch(html.priceLabeled)) ELSE NoNum,
          LAMBDA p1 :
        IF p1.some THEN p1
        ELSE IF html.priceCurrency # <<>>
             THEN parsePrice(secondMatch(html.priceCurrency)) ELSE NoNum)

\* parseHtmlFallback keeping the content of the title element as it is
parseHtmlFallbackRawTitle(html, url, zone) ==
    [EmptyEvent EXCEPT
        !.url = SomeStr(url),
        !.name = html.title,
        !.start_date = fallbackDate(html, zone),
        !.location = extractLocationFromHtml(html),
        !.price = fallbackPrice(html)]

\* lines 524-574
parseHtmlFallback(html, url, zone) ==
    [EmptyEvent EXCEPT
        !.url = SomeStr(url),
        !.name = IF html.title.some THEN SomeStr(trim(stripTags(html.title.v)))
                 ELSE NoStr,
        !.start_date = fallbackDate(html, zone),
        !.location = extractLocationFromHtml(html),
        !.price = fallbackPrice(html)]

-----------------------------------------------------------------------------
(* scrapeEventData, after the page has been fetched *)

\* lines 604-607 and 611-614
locationLooksLikeUrl(location) ==
    \/ includes(location, <<"http">>)
    \/ includes(location, <<"www", ".">>)
    \/ StartsWithHttpScheme(location)

\* lines 603-618
reconcileLocation(schemaData, html) ==
    IF ~Truthy(schemaData.location) \/ locationLooksLikeUrl(schemaData.location.v)
    THEN Const(extractLocationFromHtml(html), LAMBDA htmlLocation :
            IF Truthy(htmlLocation) THEN htmlLocation
            ELSE IF Truthy(schemaData.location)
                    /\ locationLooksLikeUrl(schemaData.location.v)
                 THEN NoStr
                 ELSE schemaData.location)
    ELSE schemaData.location

\* withCategories with the suggestions kept in a list of the module, which
\* an earlier invocation has filled
withCategoriesKeptInModule(eventData) ==
    Const(detectCategories(eventData), LAMBDA detected :
        [eventData EXCEPT
            !.category = detected.primary,
            !.suggestedCategories =
                (IF \E i \in DOMAIN runs : runs[i].outcome.k = "returned"
                 THEN runs[CHOOSE i \in DOMAIN runs :
                              runs[i].outcome.k = "returned"].outcome.data.suggestedCategories
                 ELSE <<>>) \o detected.suggestions])

\* lines 619-622 and 628-631
withCategories(eventData) ==
    Const(detectCategories(eventData), LAMBDA detected :
        [eventData EXCEPT !.category = detected.primary,
                          !.suggestedCategories = detected.suggestions])

\* extractEvent without the test of schemaData.name on line 598
extractEventWheneverFound(html, url, zone) ==
    Const(parseSchemaOrgJsonLd(html, zone), LAMBDA schemaData :
        IF schemaData.found
        THEN Const(IF ~Truthy(schemaData.data.url)
                   THEN [schemaData.data EXCEPT !.url = SomeStr(url)]
                   ELSE schemaData.data,
                   LAMBDA withUrl :
                withCategories([withUrl EXCEPT
                    !.location = reconcileLocation(withUrl, html)]))
        ELSE withCategories(parseHtmlFallback(html, url, zone)))

\* lines 597-632
extractEvent(html, url, zone) ==
    Const(parseSchemaOrgJsonLd(html, zone), LAMBDA schemaData :
        IF schemaData.found /\ Truthy(schemaData.data.name)
        THEN Const(IF ~Truthy(schemaData.data.url)
                   THEN [schemaData.data EXCEPT !.url = SomeStr(url)]
                   ELSE schemaData.data,
                   LAMBDA withUrl :
                withCategories([withUrl EXCEPT
                    !.location = reconcileLocation(withUrl, html)]))
        ELSE withCategories(parseHtmlFallback(html, url, zone)))

-----------------------------------------------------------------------------
(* Thrown values, and what scrapeEventData and the handler make of them *)

\* A message is the sequence of the pieces it is built from
Error(message) == [isError |-> TRUE, message |-> message]
NoError == [isError |-> FALSE, message |-> <<>>]

\* fetchStatusError without the reason phrase
fetchStatusErrorWithoutReason(response) ==
    Error(<<"Failed to fetch URL: ", ToString(response.status)>>)

\* line 591
fetchStatusError(response) ==
    Error(<<"Failed to fetch URL: ", ToString(response.status), " ", response.statusText>>)

\* line 635: the catch of scrapeEventData
wrapScrapeError(error) ==
    Error(<<"Failed to scrape event data: ">>
            \o (IF error.isError THEN error.message ELSE <<"Unknown error">>))

NoOutcome == [k |-> "none", data |-> EmptyEvent, error |-> NoError]
Returned(eventData) == [k |-> "returned", data |-> eventData, error |-> NoError]
Threw(error) == [k |-> "threw", data |-> EmptyEvent, error |-> error]

\* NextResponse.json(...)
ErrorResponse(status, message) ==
    [status |-> status, error |-> SomeStr(message), data |-> EmptyEvent, hasData |-> FALSE]
DataResponse(eventData) ==
    [status |-> 200, error |-> NoStr, data |-> eventData, hasData |-> TRUE]

\* catchResponse answering with the fixed message whatever was thrown
catchResponseFixedMessage(error) ==
    ErrorResponse(500, <<"Failed to scrape event data">>)

\* lines 31-38: the catch of the handler
catchResponse(error) ==
    ErrorResponse(500, IF error.isError THEN error.message
                       ELSE <<"Failed to scrape event data">>)

-----------------------------------------------------------------------------
(* The request *)

\* The body of the request: text that is not JSON, the JSON value null, or a
\* JSON object whose url member is absent, a string, or a value of another type
UnparseableBody == [k |-> "unparseable", url |-> [k |-> "undef", s |-> <<>>]]
NullBody == [k |-> "null", url |-> [k |-> "undef", s |-> <<>>]]
ObjectBody(url) == [k |-> "object", url |-> url]
NoUrl == [k |-> "undef", s |-> <<>>]
StringUrl(s) == [k |-> "str", s |-> s]
OtherUrl == [k |-> "other", s |-> <<>>]

RECURSIVE concat(_)
\* the text of a run of lexemes
concat(s) == IF s = <<>> THEN "" ELSE Head(s) \o concat(Tail(s))

SpecialSchemes == {"http", "https", "ftp", "ws", "wss"}
FetchSchemes == {"http", "https"}

\* the scheme a string starts with ("" when it starts with none): a run of
\* letters followed by ":"
schemeEnd(s) ==
    LET e == RunEnd(s, 1, {t \in {s[i] : i \in 1..Len(s)} : IsLetters(t)})
    IN  IF e >= 1 /\ e < Len(s) /\ s[e + 1] \in {":", "://"} THEN e ELSE 0

schemeOf(s) ==
    LET e == schemeEnd(s)
    IN  concat([i \in 1..e |-> toLowerCase(s[i])])

\* new URL(s) does not throw: s starts with a scheme, and after a special
\* scheme comes a host, a non-empty run without spaces
hostOf(s) ==
    LET e == schemeEnd(s)
        h == RunEnd(s, e + 2, {t \in {s[i] : i \in 1..Len(s)} : t \notin {"/", "?"}})
    IN  SubSeq(s, e + 2, h)

ParsesAsUrl(s) ==
    /\ schemeEnd(s) > 0
    /\ schemeOf(s) \in SpecialSchemes =>
         /\ hostOf(s) # <<>>
         /\ \A i \in 1..Len(hostOf(s)) :
               IsWordLexeme(hostOf(s)[i]) \/ hostOf(s)[i] \in {".", "-"}

\* validate without the try of new URL(url) on lines 17-24
validateWithoutUrlParse(b) ==
    CASE b.k = "unparseable" ->
            <<catchResponse(Error(<<"Unexpected end of JSON input">>))>>
      [] b.k = "null" ->
            <<catchResponse(Error(
                <<"Cannot destructure property 'url' of 'body' as it is null.">>))>>
      [] b.url.k # "str" \/ b.url.s = <<>> ->
            <<ErrorResponse(400, <<"URL is required">>)>>
      [] OTHER -> <<>>

\* lines 5-24, up to the call of scrapeEventData: the response the handler
\* gives at once, if any
validate(b) ==
    CASE b.k = "unparseable" ->
            \* request.json() rejects with a SyntaxError
            <<catchResponse(Error(<<"Unexpected end of JSON input">>))>>
      [] b.k = "null" ->
            \* const { url } = null
            <<catchResponse(Error(
                <<"Cannot destructure property 'url' of 'body' as it is null.">>))>>
      [] b.url.k # "str" \/ b.url.s = <<>> ->
            <<ErrorResponse(400, <<"URL is required">>)>>
      [] ~ParsesAsUrl(b.url.s) ->
            <<ErrorResponse(400, <<"Invalid URL format">>)>>
      [] OTHER -> <<>>

-----------------------------------------------------------------------------
(* The inputs the model is run on *)

\* The most ld+json script blocks on a page
MaxBlocks == 2

\* The longest name, in lexemes, the classifier is run on
MaxNameLen == 3

\* Offsets of the zone of the server process, in hours east of UTC
Zones == {-5, 0, 2}

AiSummit == <<"AI", " ", "Summit">>
Gala == <<"Gala">>
TechSummit2025 == <<"Tech", " ", "Summit", " ", "2025">>

EventUrl == <<"http", "s", "://", "techconf", ".", "io", "/", "workshop">>
GalaUrl == <<"http", "://", "gala", ".", "se", "/">>
MailUrl == <<"mailto", ":", "info">>
NotAUrl == <<"not", " ", "a", " ", "url">>
HostlessUrl == <<"http", "s", "://">>

Bodies ==
    {UnparseableBody, NullBody, ObjectBody(NoUrl), ObjectBody(OtherUrl)}
      \cup {ObjectBody(StringUrl(s)) :
              s \in {<<>>, NotAUrl, HostlessUrl, EventUrl, GalaUrl, MailUrl}}

\* What fetch resolves with: the status line of the response
Response(status, statusText) ==
    [status |-> status, statusText |-> statusText, ok |-> status \in 200..299,
     read |-> FALSE, html |-> Page(<<>>, NoStr, NoDate, NoDate, <<>>, <<>>, <<>>)]

NoResponse == Response(0, "")

Responses ==
    {Response(200, "OK"), Response(404, "Not Found"),
     Response(500, "Internal Server Error")}

StockholmSweden == <<"Stockholm", ",", " ", "Sweden">>
HttpsLocation == <<"http", "s", "://", "example", ".", "com">>
UpperHttpLocation == <<"HTTP", "://", "example", ".", "com">>
WwwLocation == <<"www", ".", "example", ".", "se">>
FtpLocation == <<"ftp", "://", "example", ".", "org", "/", "hall">>
MainHall == <<"main", " ", "hall">>

StructuredLocations ==
    {NoLocation, LocationString(StockholmSweden), LocationString(HttpsLocation),
     LocationString(UpperHttpLocation), LocationString(WwwLocation),
     LocationString(FtpLocation),
     Place(Scalar(<<"Hall">>), NoAddress),
     Place(Array(<<HttpsLocation>>), NoAddress),
     Place(Absent, Address(NoStr, SomeStr(<<"Stockholm">>), NoStr, NoStr,
                           SomeStr(<<"Sweden">>))),
     Place(Scalar(<<"Hall">>), Address(SomeStr(<<"7A", " ", "Posthuset">>),
                                       SomeStr(<<"Stockholm">>), NoStr, NoStr, NoStr))}

\* The matches of the location patterns on a page
LocationMatches ==
    {<<>>,
     <<LocMatch(1, <<"Stockholm">>)>>,
     <<LocMatch(2, HttpsLocation)>>,
     <<LocMatch(4, MainHall)>>,
     <<LocMatch(3, <<"Hall">>), LocMatch(11, StockholmSweden)>>,
     <<LocMatch(8, <<"register", "  ", " ">>), LocMatch(12, <<"Stockholm", " ", "Expo">>)>>}

Dates ==
    {NoDate,
     SomeDate(DateStr("iso", 2025, 3, 15, 0, 0)),
     SomeDate(DateStr("isoT", 2025, 3, 1, 23, 0)),
     SomeDate(DateStr("text", 0, 0, 0, 0, 0))}

LabeledDates ==
    {NoDate, SomeDate(DateStr("slash", 2025, 3, 15, 0, 0)),
     SomeDate(DateStr("dot", 2025, 15, 3, 0, 0))}

BareDates == {NoDate, SomeDate(DateStr("ymdSlash", 2025, 1, 1, 0, 0))}

OfferSets ==
    {NoOffers,
     OneOffer(Offer(NumPrice(100))),
     OneOffer(Offer(NumPrice(-5))),
     OneOffer(Offer(StrPrice(<<"-", "5">>))),
     OneOffer(Offer(StrPrice(<<"free">>))),
     OfferArray(<<Offer(NumPrice(0)), Offer(StrPrice(<<"$", "1", ",", "2", "0", "0", ".", "5", "0">>))>>),
     OfferArray(<<NullOffer, Offer(NumPrice(100))>>)}

Titles ==
    {NoStr, SomeStr(TechSummit2025),
     SomeStr(<<" ", "<b>", "Gala", "</b>", " ", "2025", "  ">>)}

LabeledPrices ==
    {<<>>, <<<<"Price", ":", " ", "1", "0", "0">>>>,
     <<<<"Price", ":", " ", "1", "0", "0">>, <<"ticket", " ", "5", "0">>>>,
     <<<<"Price", ":", " ", "1", "0", "0">>, <<"fee", " ", ",">>>>}

CurrencyPrices ==
    {<<>>, <<<<"9", "9", " ", "SEK">>, <<"1", "2", ".", "5", "0", " ", "kr">>>>}

\* Entries of a linked-data block
PlaceEntry ==
    Entry(Scalar("Place"), Scalar(<<"Hall">>), NoLocation, NoDate, NoDate, NoOffers,
          Absent, Absent)

Event(type, name, location, startDate, offers, description, url) ==
    Entry(type, name, location, startDate, NoDate, offers, description, url)

NamedEvent ==
    Event(Scalar("Event"), Scalar(AiSummit), NoLocation, NoDate, NoOffers, Absent, Absent)

UnnamedEvent ==
    Event(Scalar("Event"), Absent, NoLocation, NoDate, NoOffers, Absent, Absent)

PlainPage(blocks) ==
    Page(blocks, SomeStr(TechSummit2025), NoDate, NoDate, <<>>, <<>>, <<>>)

\* Pages with one Event: its location against the location matches
LocationPages ==
    {Page(<<ObjectBlock(Event(Scalar("Event"), Scalar(Gala), l, NoDate, NoOffers,
                              Absent, Absent))>>,
          SomeStr(TechSummit2025), NoDate, NoDate, m, <<>>, <<>>) :
        l \in StructuredLocations, m \in LocationMatches}

\* Pages with one Event: its name, offers, dates, description and url
FieldPages ==
    {PlainPage(<<ObjectBlock(Event(Scalar("Event"), n, NoLocation, d, o, Absent, u))>>) :
        n \in {Scalar(AiSummit), Array(<<Gala, AiSummit>>), Scalar(<<>>)},
        d \in Dates, o \in OfferSets, u \in {Absent, Scalar(GalaUrl)}}

\* Pages by the shape of their linked data
BlockShapes ==
    {MalformedBlock, ObjectBlock(PlaceEntry), ObjectBlock(NamedEvent),
     ObjectBlock(UnnamedEvent), ArrayBlock(<<NullEntry, NamedEvent>>)}

RECURSIVE SeqsUpTo(_, _)
\* the sequences over S of length at most n
SeqsUpTo(S, n) ==
    IF n = 0 THEN {<<>>}
    ELSE LET shorter == SeqsUpTo(S, n - 1)
         IN  shorter \cup {Append(s, x) : s \in shorter, x \in S}

ShapePages == {PlainPage(bs) : bs \in SeqsUpTo(BlockShapes, MaxBlocks)}

\* Pages without an Event: what the fallback reads
FallbackPages ==
    {Page(<<>>, t, d1, d2, <<>>, p1, p2) :
        t \in Titles, d1 \in LabeledDates, d2 \in BareDates,
        p1 \in LabeledPrices, p2 \in CurrencyPrices}
      \cup
    {Page(bs, t, NoDate, NoDate, m, <<>>, <<>>) :
        bs \in {<<>>, <<ObjectBlock(PlaceEntry)>>}, t \in Titles, m \in LocationMatches}

Pages == LocationPages \cup FieldPages \cup ShapePages \cup FallbackPages

-----------------------------------------------------------------------------
(* The database (supabase migrations) and the calls of lib/db.ts.          *)
(*                                                                         *)
(* A table is the set of its rows.  Every statement a supabase call sends  *)
(* is executed by Postgres as one transaction, so it is one step; a lib/db *)
(* function that awaits several statements takes one step per statement,   *)
(* and the steps of the clients interleave.  Of a rating row the model     *)
(* keeps its id, its conference_id and the three ratings (accessibility,   *)
(* skill improvement, finding partners; 0 stands for null); of a           *)
(* conference, its id.  An id that gen_random_uuid() gives is represented  *)
(* by the least number no row of the table has.                            *)

\* the browser sessions that call lib/db at the same time
Clients == {"a", "b"}

MaxConferences == 2
ConferenceIds == 1..MaxConferences

\* the three ratings of a form: all null or undefined, or some of them given
NoRatings == [some |-> FALSE, v |-> <<0, 0, 0>>]
Ratings(v) == [some |-> TRUE, v |-> v]
RatingInputs == {NoRatings, Ratings(<<1, 0, 0>>), Ratings(<<0, 5, 5>>)}

\* how a call ended
NotCalled == [k |-> "none", message |-> "", code |-> ""]
Resolved == [k |-> "returned", message |-> "", code |-> ""]
Rejected(message, code) == [k |-> "threw", message |-> message, code |-> code]

\* a client outside any call, its last call having ended with result
Idle(result) ==
    [op |-> "none", pc |-> "idle", conference_id |-> 0, stars |-> NoRatings,
     result |-> result]
\* a client inside op, before the statement named by at
Calling(op, at, conferenceId, stars) ==
    [op |-> op, pc |-> at, conference_id |-> conferenceId, stars |-> stars,
     result |-> NotCalled]

\* id UUID PRIMARY KEY DEFAULT gen_random_uuid()
freshId(rows) ==
    CHOOSE i \in 1..(Cardinality(rows) + 1) : \A r \in rows : r.id # i

\* ratings.conference_id ... UNIQUE: a row for the conference is there
UniqueNotEnforced(conferenceId) == FALSE
UniqueViolation(conferenceId) ==
    \E r \in ratings : r.conference_id = conferenceId

\* ratings.conference_id ... REFERENCES conferences(id)
ForeignKeyViolation(conferenceId) == conferenceId \notin conferences

\* ... ON DELETE CASCADE: the rating rows left when the conference row goes
ratingsKeptOnDelete(conferenceId) == ratings
cascade(conferenceId) == {r \in ratings : r.conference_id # conferenceId}

\* INSERT INTO ratings: the error code ("" for none) and the rows afterwards
insertInto(conferenceId, stars) ==
    IF ForeignKeyViolation(conferenceId)
    THEN [code |-> "23503", rows |-> ratings]
    ELSE IF UniqueViolation(conferenceId)
    THEN [code |-> "23505", rows |-> ratings]
    ELSE [code |-> "",
          rows |-> ratings \cup {[id |-> freshId(ratings),
                                  conference_id |-> conferenceId,
                                  stars |-> stars]}]

\* client c's call ends with result
return(c, result) == calls' = [calls EXCEPT ![c] = Idle(result)]

\* createConference, lines 374-413: the conference row is inserted; with
\* ratings in the form, createOrUpdateRating is called next (lines 415-428)
createConference ==
    \E c \in Clients, stars \in RatingInputs :
       /\ calls[c].pc = "idle"
       /\ conferences # ConferenceIds
       /\ conferences' = conferences \cup {freshId({[id |-> i] : i \in conferences})}
       /\ IF stars.some
          THEN calls' = [calls EXCEPT ![c] =
                           Calling("createConference", "select",
                                   freshId({[id |-> i] : i \in conferences}), stars)]
          ELSE return(c, Resolved)
       /\ UNCHANGED <<ratings, people, categories, offices>>
       /\ UNCHANGED <<scrapeVars, uiVars, assigned_to>>

\* updateConference, lines 554-596: the row is updated; .single() makes an
\* update of no row an error.  Then createOrUpdateRating or deleteRating
updateConference ==
    \E c \in Clients, conferenceId \in ConferenceIds, stars \in RatingInputs :
       /\ calls[c].pc = "idle"
       /\ IF conferenceId \notin conferences
          THEN return(c, Rejected("Failed to update conference", "PGRST116"))
          ELSE calls' = [calls EXCEPT ![c] =
                           Calling("updateConference",
                                   IF stars.some THEN "select" ELSE "delete",
                                   conferenceId, stars)]
       /\ UNCHANGED <<conferences, ratings, people, categories, offices>>
       /\ UNCHANGED <<scrapeVars, uiVars, assigned_to>>

\* createOrUpdateRating is called on its own
createOrUpdateRating ==
    \E c \in Clients, conferenceId \in ConferenceIds, stars \in RatingInputs :
       /\ calls[c].pc = "idle"
       /\ stars.some
       /\ calls' = [calls EXCEPT ![c] =
                      Calling("createOrUpdateRating", "select", conferenceId, stars)]
       /\ UNCHANGED <<conferences, ratings, people, categories, offices>>
       /\ UNCHANGED <<scrapeVars, uiVars, assigned_to>>

\* createOrUpdateRating, lines 625-631: is there a rating of the conference
selectExistingRating ==
    \E c \in Clients :
       /\ calls[c].pc = "select"
       /\ calls' = [calls EXCEPT ![c].pc =
                      IF \E r \in ratings : r.conference_id = calls[c].conference_id
                      THEN "update" ELSE "insert"]
       /\ UNCHANGED <<conferences, ratings, people, categories, offices>>
       /\ UNCHANGED <<scrapeVars, uiVars, assigned_to>>

\* updateRating writing the ratings that are given only, the others of the
\* row staying as they are
updateRatingGivenOnly ==
    \E c \in Clients :
       /\ calls[c].pc = "update"
       /\ IF \E r \in ratings : r.conference_id = calls[c].conference_id
          THEN /\ ratings' = {IF r.conference_id = calls[c].conference_id
                              THEN [r EXCEPT !.stars =
                                      [i \in 1..3 |->
                                         IF calls[c].stars.v[i] # 0
                                         THEN calls[c].stars.v[i] ELSE r.stars[i]]]
                              ELSE r : r \in ratings}
               /\ return(c, Resolved)
          ELSE /\ UNCHANGED ratings
               /\ return(c, Rejected("Failed to update rating", "PGRST116"))
       /\ UNCHANGED <<conferences, people, categories, offices>>
       /\ UNCHANGED <<scrapeVars, uiVars, assigned_to>>

\* lines 633-649: the existing rating is updated; .single() makes an update
\* of no row an error
updateRating ==
    \E c \in Clients :
       /\ calls[c].pc = "update"
       /\ IF \E r \in ratings : r.conference_id = calls[c].conference_id
          THEN /\ ratings' = {IF r.conference_id = calls[c].conference_id
                              THEN [r EXCEPT !.stars = calls[c].stars.v]
                              ELSE r : r \in ratings}
               /\ return(c, Resolved)
          ELSE /\ UNCHANGED ratings
               /\ return(c, Rejected("Failed to update rating", "PGRST116"))
       /\ UNCHANGED <<conferences, people, categories, offices>>
       /\ UNCHANGED <<scrapeVars, uiVars, assigned_to>>

\* lines 650-667: a new rating is inserted
insertRating ==
    \E c \in Clients :
       /\ calls[c].pc = "insert"
       /\ ratings' = insertInto(calls[c].conference_id, calls[c].stars.v).rows
       /\ IF insertInto(calls[c].conference_id, calls[c].stars.v).code # ""
          THEN return(c, Rejected("Failed to create rating",
                                  insertInto(calls[c].conference_id,
                                             calls[c].stars.v).code))
          ELSE return(c, Resolved)
       /\ UNCHANGED <<conferences, people, categories, offices>>
       /\ UNCHANGED <<scrapeVars, uiVars, assigned_to>>

\* deleteRating, lines 670-683, called on its own or by updateConference
\* (line 614): deleting no row is not an error
deleteRating ==
    \E c \in Clients, conferenceId \in ConferenceIds :
       /\ \/ calls[c].pc = "idle"
          \/ calls[c].pc = "delete" /\ conferenceId = calls[c].conference_id
       /\ ratings' = {r \in ratings : r.conference_id # conferenceId}
       /\ return(c, Resolved)
       /\ UNCHANGED <<conferences, people, categories, offices>>
       /\ UNCHANGED <<scrapeVars, uiVars, assigned_to>>

\* deleteConference, lines 685-695
deleteConference ==
    \E c \in Clients, conferenceId \in ConferenceIds :
       /\ calls[c].pc = "idle"
       /\ conferences' = conferences \ {conferenceId}
       /\ assigned_to' = {a \in assigned_to : a.conference_id # conferenceId}
       /\ ratings' = cascade(conferenceId)
       /\ return(c, Resolved)
       /\ UNCHANGED <<people, categories, offices>>
       /\ UNCHANGED <<scrapeVars, uiVars>>

\* the invocations of scrapeEventData in one process, none of them begun
Runs == {1, 2}
NoRuns ==
    [i \in Runs |->
        [pc |-> "start", url |-> <<>>,
         html |-> Page(<<>>, NoStr, NoDate, NoDate, <<>>, <<>>, <<>>),
         outcome |-> NoOutcome]]

\* the scraper, the database and the UI when a specification leaves them out
ScraperUnused ==
    /\ pc = "start"
    /\ body = ObjectBody(NoUrl)
    /\ tz = 0
    /\ target = <<>>
    /\ fetched = NoResponse
    /\ outcome = NoOutcome
    /\ responses = <<>>
    /\ extracted = 0
    /\ runs = NoRuns
    /\ arg = 0
    /\ ret = 0

DatabaseUnused ==
    /\ conferences = {}
    /\ ratings = {}
    /\ people = {}
    /\ categories = {}
    /\ offices = {}
    /\ assigned_to = {}
    /\ calls = [c \in Clients |-> Idle(NotCalled)]

UiUnused ==
    /\ header = 0
    /\ form = 0
    /\ toasts = <<>>
    /\ page = 0

InitDb ==
    /\ ScraperUnused
    /\ DatabaseUnused
    /\ UiUnused

NextDb ==
    \/ createConference
    \/ updateConference
    \/ createOrUpdateRating
    \/ selectExistingRating
    \/ updateRating
    \/ insertRating
    \/ deleteRating
    \/ deleteConference

SpecDb == InitDb /\ [][NextDb]_vars

-----------------------------------------------------------------------------
(* createPerson, createCategory and createOffice of lib/db.ts: one insert  *)
(* each, into a table whose email or name column is UNIQUE                 *)

Emails == {"ada@knightec.se", "bo@knightec.se"}
CategoryNames == {"AI", "Design"}
OfficeNames == {"Stockholm", "Lund"}

\* a client whose call of op with value has ended with result
Called(op, value, result) ==
    [op |-> op, pc |-> "idle", value |-> value, result |-> result]

\* the error supabase reports when the request gets no answer from Postgres
FetchFailed == [code |-> "", message |-> "TypeError: fetch failed"]
\* the error Postgres reports for a row that breaks a UNIQUE constraint
DuplicateKey == [code |-> "23505", message |-> "duplicate key value"]

\* lines 263-269, 477-483 and 522-528: the error a create call throws
createErrorWithoutCode(what, alreadyExists, error) ==
    Rejected("Failed to create " \o what, error.code)
createError(what, alreadyExists, error) ==
    IF error.code = "23505"
    THEN Rejected(alreadyExists, error.code)
    ELSE Rejected("Failed to create " \o what, error.code)

\* people.email TEXT NOT NULL UNIQUE
emailTaken(email) == \E p \in people : p.email = email
\* categories.name and offices.name TEXT NOT NULL UNIQUE
nameTaken(rows, name) == \E r \in rows : r.name = name

\* createPerson, lines 252-273
createPerson ==
    \E c \in Clients, email \in Emails, answered \in BOOLEAN :
       /\ calls[c].pc = "idle"
       /\ IF ~answered
          THEN /\ calls' = [calls EXCEPT ![c] =
                   Called("createPerson", email,
                          createError("person", "Email already exists. Please use a different email.",
                                      FetchFailed))]
               /\ UNCHANGED people
          ELSE IF emailTaken(email)
          THEN /\ calls' = [calls EXCEPT ![c] =
                   Called("createPerson", email,
                          createError("person", "Email already exists. Please use a different email.",
                                      DuplicateKey))]
               /\ UNCHANGED people
          ELSE /\ calls' = [calls EXCEPT ![c] = Called("createPerson", email, Resolved)]
               /\ people' = people \cup {[id |-> freshId(people), email |-> email]}
       /\ UNCHANGED <<conferences, ratings, categories, offices>>
       /\ UNCHANGED <<scrapeVars, uiVars, assigned_to>>

\* createCategory, lines 466-486
createCategory ==
    \E c \in Clients, name \in CategoryNames, answered \in BOOLEAN :
       /\ calls[c].pc = "idle"
       /\ IF ~answered
          THEN /\ calls' = [calls EXCEPT ![c] =
                   Called("createCategory", name,
                          createError("category", "Category already exists. Please use a different name.",
                                      FetchFailed))]
               /\ UNCHANGED categories
          ELSE IF nameTaken(categories, name)
          THEN /\ calls' = [calls EXCEPT ![c] =
                   Called("createCategory", name,
                          createError("category", "Category already exists. Please use a different name.",
                                      DuplicateKey))]
               /\ UNCHANGED categories
          ELSE /\ calls' = [calls EXCEPT ![c] = Called("createCategory", name, Resolved)]
               /\ categories' = categories \cup {[id |-> freshId(categories), name |-> name]}
       /\ UNCHANGED <<conferences, ratings, people, offices>>
       /\ UNCHANGED <<scrapeVars, uiVars, assigned_to>>

\* createOffice, lines 512-531
createOffice ==
    \E c \in Clients, name \in OfficeNames, answered \in BOOLEAN :
       /\ calls[c].pc = "idle"
       /\ IF ~answered
          THEN /\ calls' = [calls EXCEPT ![c] =
                   Called("createOffice", name,
                          createError("office", "Office already exists. Please use a different name.",
                                      FetchFailed))]
               /\ UNCHANGED offices
          ELSE IF nameTaken(offices, name)
          THEN /\ calls' = [calls EXCEPT ![c] =
                   Called("createOffice", name,
                          createError("office", "Office already exists. Please use a different name.",
                                      DuplicateKey))]
               /\ UNCHANGED offices
          ELSE /\ calls' = [calls EXCEPT ![c] = Called("createOffice", name, Resolved)]
               /\ offices' = offices \cup {[id |-> freshId(offices), name |-> name]}
       /\ UNCHANGED <<conferences, ratings, people, categories>>
       /\ UNCHANGED <<scrapeVars, uiVars, assigned_to>>

NextCreate == createPerson \/ createCategory \/ createOffice

SpecCreate == InitDb /\ [][NextCreate]_vars

-----------------------------------------------------------------------------
(* The handler of POST /api/scrape-event *)

Init ==
    /\ pc = "start"
    /\ body \in Bodies
    /\ tz \in Zones
    /\ target = <<>>
    /\ fetched = NoResponse
    /\ outcome = NoOutcome
    /\ responses = <<>>
    /\ extracted = 0
    /\ runs = NoRuns
    /\ arg = 0
    /\ ret = 0
    /\ DatabaseUnused
    /\ UiUnused

\* The handler fails, by the catch of scrapeEventData and then its own
failScrape(error) ==
    LET wrapped == wrapScrapeError(error)
    IN  /\ outcome' = Threw(wrapped)
        /\ responses' = Append(responses, catchResponse(wrapped))
        /\ pc' = "done"

\* route.ts lines 5-27: the body is read and checked, and scrapeEventData
\* is called, which calls fetch
POST ==
    /\ pc = "start"
    /\ LET r == validate(body)
       IN  IF r # <<>>
           THEN /\ responses' = responses \o r
                /\ pc' = "done"
                /\ UNCHANGED target
           ELSE /\ target' = body.url.s
                /\ pc' = "fetch"
                /\ UNCHANGED responses
    /\ UNCHANGED <<body, tz, fetched, outcome, extracted, arg, ret>>
    /\ UNCHANGED <<dbVars, uiVars, runs>>

\* fetch rejects: the host cannot be reached, or the scheme cannot be fetched
fetchRejects ==
    /\ pc = "fetch"
    /\ failScrape(Error(<<"fetch failed">>))
    /\ UNCHANGED <<body, tz, target, fetched, extracted, arg, ret>>
    /\ UNCHANGED <<dbVars, uiVars, runs>>

\* fetch resolves with the status line of a response (lines 583-592)
fetchResolves ==
    /\ pc = "fetch"
    /\ schemeOf(target) \in FetchSchemes
    /\ \E response \in Responses :
          /\ fetched' = response
          /\ IF ~response.ok
             THEN failScrape(fetchStatusError(response))
             ELSE /\ pc' = "text"
                  /\ UNCHANGED <<outcome, responses>>
    /\ UNCHANGED <<body, tz, target, extracted, arg, ret>>
    /\ UNCHANGED <<dbVars, uiVars, runs>>

\* response.text() resolves with the page, the extractors run, the record
\* is returned and the handler answers with it (lines 594-632, route.ts 29)
textResolves ==
    /\ pc = "text"
    /\ \E html \in Pages :
          LET eventData == extractEvent(html, target, tz)
          IN  /\ fetched' = [fetched EXCEPT !.read = TRUE, !.html = html]
              /\ extracted' = extracted + 1
              /\ outcome' = Returned(eventData)
              /\ responses' = Append(responses, DataResponse(eventData))
              /\ pc' = "done"
    /\ UNCHANGED <<body, tz, target, arg, ret>>
    /\ UNCHANGED <<dbVars, uiVars, runs>>

\* response.text() rejects: the connection breaks while the body is read
textRejects ==
    /\ pc = "text"
    /\ failScrape(Error(<<"terminated">>))
    /\ UNCHANGED <<body, tz, target, fetched, extracted, arg, ret>>
    /\ UNCHANGED <<dbVars, uiVars, runs>>

Next == POST \/ fetchRejects \/ fetchResolves \/ textResolves \/ textRejects

Spec == Init /\ [][Next]_vars

-----------------------------------------------------------------------------
(* parseSchemaOrgJsonLd on its own: arg is the markup, ret the result *)

SchemaOrgEventUri == "https://schema.org/Event"

EventTypes ==
    {Scalar("Event"), Scalar(SchemaOrgEventUri), Array(<<"Thing", "Event">>)}

EventNames == {Absent, Scalar(AiSummit), Array(<<Gala, AiSummit>>)}

\* The script blocks the extractor is run on
JsonLdBlocks ==
    {MalformedBlock, ObjectBlock(PlaceEntry),
     ObjectBlock(Event(Scalar("http://schema.org/Event"), Scalar(Gala), NoLocation,
                       NoDate, NoOffers, Absent, Absent)),
     ArrayBlock(<<NullEntry, NamedEvent>>),
     ObjectBlock(Event(Scalar("Event"), Scalar(Gala), NoLocation, NoDate,
                       OfferArray(<<NullOffer>>), Absent, Absent))}
      \cup {ObjectBlock(Event(t, n, NoLocation, NoDate, NoOffers, Absent, Absent)) :
               t \in EventTypes, n \in EventNames}
      \cup {ArrayBlock(<<PlaceEntry,
                         Event(Scalar("Event"), Scalar(Gala), LocationString(MainHall),
                               NoDate, OneOffer(Offer(NumPrice(100))), Absent, Absent)>>)}

JsonLdPages == {PlainPage(bs) : bs \in SeqsUpTo(JsonLdBlocks, MaxBlocks)}

InitJsonLd ==
    /\ pc = "start"
    /\ arg \in JsonLdPages
    /\ ret = NotFound
    /\ tz = 0
    /\ body = ObjectBody(NoUrl)
    /\ target = <<>>
    /\ fetched = NoResponse
    /\ outcome = NoOutcome
    /\ responses = <<>>
    /\ extracted = 0
    /\ runs = NoRuns
    /\ DatabaseUnused
    /\ UiUnused

callParseSchemaOrgJsonLd ==
    /\ pc = "start"
    /\ ret' = parseSchemaOrgJsonLd(arg, tz)
    /\ pc' = "done"
    /\ UNCHANGED <<body, tz, target, fetched, outcome, responses, extracted, arg>>
    /\ UNCHANGED <<dbVars, uiVars, runs>>

SpecJsonLd == InitJsonLd /\ [][callParseSchemaOrgJsonLd]_vars

-----------------------------------------------------------------------------
(* detectCategories on its own: arg is the record, ret the result *)

\* The lexemes names are made of
NameLexemes == {"AI", "open", "Summit", "Design", " ", "-"}

ClassifiedEvents ==
    {[EmptyEvent EXCEPT !.name = n, !.description = d, !.url = u] :
        n \in {NoStr} \cup {SomeStr(s) : s \in SeqsUpTo(NameLexemes, MaxNameLen) \ {<<>>}},
        d \in {NoStr, SomeStr(<<"a", " ", "Developer", " ", "meetup">>),
               SomeStr(<<"sales", " ", "data", " ", "Developer", " ", "meetup">>)},
        u \in {NoStr, SomeStr(EventUrl)}}

InitCategories ==
    /\ pc = "start"
    /\ arg \in ClassifiedEvents
    /\ ret = [primary |-> NoLabel, suggestions |-> <<>>]
    /\ tz = 0
    /\ body = ObjectBody(NoUrl)
    /\ target = <<>>
    /\ fetched = NoResponse
    /\ outcome = NoOutcome
    /\ responses = <<>>
    /\ extracted = 0
    /\ runs = NoRuns
    /\ DatabaseUnused
    /\ UiUnused

callDetectCategories ==
    /\ pc = "start"
    /\ ret' = detectCategories(arg)
    /\ pc' = "done"
    /\ UNCHANGED <<body, tz, target, fetched, outcome, responses, extracted, arg>>
    /\ UNCHANGED <<dbVars, uiVars, runs>>

SpecCategories == InitCategories /\ [][callDetectCategories]_vars

-----------------------------------------------------------------------------
(* parseDate on its own: arg is the date string, tz the zone of the        *)
(* process, ret the result                                                 *)

\* the strings parseDate is run on: "2025-03-15", "2025-03-15T23:00:00",
\* "...T23:00:00Z", "...T23:00:00+02:00", "03/15/2025", "15-03-2025", and
\* a text that is no date
DateStrings ==
    {DateStr(f, y, a, b, 0, 0) :
        f \in {"iso", "slash", "dash"}, y \in {2024, 2025},
        a \in {1, 2, 3, 12, 15}, b \in {1, 3, 15, 29, 31}}
      \cup {DateStr(f, y, a, b, hh, 0) :
        f \in {"isoT", "isoZ"}, y \in {2024, 2025},
        a \in {1, 2, 12, 15}, b \in {1, 29, 31}, hh \in {0, 23}}
      \cup {DateStr("isoOff", y, a, b, hh, off) :
        y \in {2024, 2025}, a \in {1, 2, 12}, b \in {1, 29, 31},
        hh \in {0, 23}, off \in {-5, 2}}
      \cup {DateStr("text", 0, 0, 0, 0, 0)}

InitDate ==
    /\ pc = "start"
    /\ arg \in {NoDate} \cup {SomeDate(s) : s \in DateStrings}
    /\ ret = NoDate
    /\ tz \in Zones
    /\ body = ObjectBody(NoUrl)
    /\ target = <<>>
    /\ fetched = NoResponse
    /\ outcome = NoOutcome
    /\ responses = <<>>
    /\ extracted = 0
    /\ runs = NoRuns
    /\ DatabaseUnused
    /\ UiUnused

callParseDate ==
    /\ pc = "start"
    /\ ret' = parseDate(arg, tz)
    /\ pc' = "done"
    /\ UNCHANGED <<body, tz, target, fetched, outcome, responses, extracted, arg>>
    /\ UNCHANGED <<dbVars, uiVars, runs>>

SpecDate == InitDate /\ [][callParseDate]_vars

-----------------------------------------------------------------------------
(* parsePrice on its own: arg is the price value, ret the result *)

MaxPriceLen == 4

\* the lexemes price strings are made of
PriceLexemes == {"1", "0", "5", ",", ".", " ", "SEK", "$"}

\* "100 SEK", "$1,200.50", "free" and every short string of the lexemes;
\* the numbers 100, 0 and -5; and no value
Prices ==
    {StrPrice(s) : s \in SeqsUpTo(PriceLexemes, MaxPriceLen)}
      \cup {StrPrice(<<"1", "0", "0", " ", "SEK">>),
            StrPrice(<<"$", "1", ",", "2", "0", "0", ".", "5", "0">>),
            StrPrice(<<"free">>)}
      \cup {NumPrice(100), NumPrice(0), NumPrice(-5), NoPrice}

InitPrice ==
    /\ pc = "start"
    /\ arg \in Prices
    /\ ret = NoNum
    /\ tz = 0
    /\ body = ObjectBody(NoUrl)
    /\ target = <<>>
    /\ fetched = NoResponse
    /\ outcome = NoOutcome
    /\ responses = <<>>
    /\ extracted = 0
    /\ runs = NoRuns
    /\ DatabaseUnused
    /\ UiUnused

callParsePrice ==
    /\ pc = "start"
    /\ ret' = parsePrice(arg)
    /\ pc' = "done"
    /\ UNCHANGED <<body, tz, target, fetched, outcome, responses, extracted, arg>>
    /\ UNCHANGED <<dbVars, uiVars, runs>>

SpecPrice == InitPrice /\ [][callParsePrice]_vars

-----------------------------------------------------------------------------
(* The two places of the UI that call POST /api/scrape-event: the scrape   *)
(* dialog of the Header (handleScrape) and the event-link field of         *)
(* AddConferenceForm (handleUrlChange).  The dialog of the Header has one  *)
(* request in flight at most (pc); of the form the model keeps the         *)
(* debounce timers that are armed and the requests that are in flight.     *)

MaxToasts == 2

ErrorToast(message) == [kind |-> "error", message |-> message]
SuccessToast(message) == [kind |-> "success", message |-> message]

\* how the fetch of a handler settles: it rejects, or it resolves with a
\* response of the endpoint, or with a page that is no JSON (a proxy's)
FetchRejected ==
    [rejected |-> TRUE, ok |-> FALSE, json |-> FALSE, error |-> NoStr, data |-> EmptyEvent]
Received(r) ==
    [rejected |-> FALSE, ok |-> r.status \in 200..299, json |-> TRUE,
     error |-> r.error, data |-> r.data]
GatewayPage ==
    [rejected |-> FALSE, ok |-> FALSE, json |-> FALSE, error |-> NoStr, data |-> EmptyEvent]

\* a record of the endpoint with every field the form reads, and a price
ScrapedEvent ==
    [EmptyEvent EXCEPT !.name = SomeStr(Gala),
                       !.location = SomeStr(StockholmSweden),
                       !.start_date = SomeDate(IsoDate(2024, 12, 30)),
                       !.end_date = SomeDate(IsoDate(2024, 12, 31)),
                       !.price = SomeNum([Zero EXCEPT !.mant = 1200]),
                       !.description = SomeStr(<<"Annual", " ", "gala">>)]

Settlements ==
    {FetchRejected, GatewayPage,
     Received(DataResponse(ScrapedEvent)),
     Received(DataResponse(EmptyEvent)),
     Received(ErrorResponse(400, <<"Invalid URL format">>)),
     Received(ErrorResponse(500, <<>>))}

\* the message of what the try block throws, if it throws: Header.tsx
\* lines 233-236 and AddConferenceForm.tsx lines 477-480
thrown(settled) ==
    IF settled.rejected THEN SomeStr(<<"Failed to fetch">>)
    ELSE IF ~settled.json THEN SomeStr(<<"Unexpected token">>)
    ELSE IF ~settled.ok
    THEN SomeStr(IF Truthy(settled.error) THEN settled.error.v
                 ELSE <<"Failed to scrape event">>)
    ELSE NoStr

\* Header.tsx lines 245-247: the catch of handleScrape
catchScrape(shown, message) == Append(shown, ErrorToast(message))

\* a catch of handleUrlChange that notifies
catchUrlChangeWithToast(shown, message) == Append(shown, ErrorToast(message))
\* AddConferenceForm.tsx lines 505-507: the catch of handleUrlChange
catchUrlChange(shown, message) == shown

HeaderClosed ==
    [pc |-> "idle", url |-> <<>>, isScraping |-> FALSE, scrapedData |-> NoStr,
     showForm |-> FALSE, outcome |-> "none"]
\* AddConferenceForm.tsx lines 97-99 and the fields of the form that
\* handleUrlChange reads or that the scraped record has a value for.  timers
\* are the debounce timers armed and neither fired nor cleared, each with the
\* url and the lastScrapedUrl of the render its callback closes over; current
\* marks the one scrapeTimeoutRef points to.  inFlight are the urls of the
\* requests of the form that have not settled; pc is "fetch" while there is
\* one
FormOpened ==
    [pc |-> "idle", mounted |-> TRUE,
     name |-> <<>>, location |-> <<>>, start_date |-> NoDate, end_date |-> NoDate,
     notes |-> <<>>, price |-> <<>>,
     event_link |-> <<>>, isScraping |-> FALSE,
     lastScrapedUrl |-> <<>>, outcome |-> "none",
     timers |-> <<>>, inFlight |-> <<>>]

InitUi ==
    /\ ScraperUnused
    /\ DatabaseUnused
    /\ header = HeaderClosed
    /\ form = FormOpened
    /\ toasts = <<>>
    /\ page = 0

\* Header.tsx lines 210-231: the dialog is submitted
handleScrape ==
    \E url \in {<<>>, <<" ">>, EventUrl} :
       /\ header.pc = "idle"
       /\ Len(toasts) < MaxToasts
       /\ IF trim(url) = <<>>
          THEN /\ toasts' = Append(toasts, ErrorToast(<<"Please enter a URL">>))
               /\ header' = [header EXCEPT !.url = url]
          ELSE /\ header' = [pc |-> "fetch", url |-> url, isScraping |-> TRUE,
                             scrapedData |-> NoStr, showForm |-> FALSE,
                             outcome |-> "none"]
               /\ UNCHANGED toasts
       /\ UNCHANGED form
       /\ UNCHANGED <<scrapeVars, dbVars, page>>

\* Header.tsx lines 233-257: the fetch settles.  Of scrapedData the model
\* keeps the name
scrapeSettles ==
    \E settled \in Settlements :
       /\ header.pc = "fetch"
       /\ IF thrown(settled).some
          THEN /\ toasts' = catchScrape(toasts, thrown(settled).v)
               /\ header' = [header EXCEPT !.pc = "idle", !.isScraping = FALSE,
                                           !.scrapedData = NoStr, !.showForm = FALSE,
                                           !.outcome = "failed"]
          ELSE /\ toasts' = Append(toasts,
                               SuccessToast(<<"Event data scraped successfully!">>))
               /\ header' = [header EXCEPT !.pc = "idle", !.isScraping = FALSE,
                                           !.scrapedData = settled.data.name,
                                           !.showForm = TRUE, !.outcome = "scraped"]
       /\ UNCHANGED form
       /\ UNCHANGED <<scrapeVars, dbVars, page>>

\* what the user types into the fields of the form, and the fields empty
MaxTyped == 1
FieldNames == {"name", "location", "start_date", "end_date", "notes", "price"}
UserInput ==
    [name |-> AiSummit, location |-> <<"Lund">>,
     start_date |-> SomeDate(IsoDate(2025, 1, 15)),
     end_date |-> SomeDate(IsoDate(2025, 1, 16)),
     notes |-> <<"ask", " ", "Anna">>, price |-> <<"900">>]
EmptyFields ==
    [name |-> <<>>, location |-> <<>>, start_date |-> NoDate, end_date |-> NoDate,
     notes |-> <<>>, price |-> <<>>]
Typed == Cardinality({f \in FieldNames : form[f] = UserInput[f]})

\* the user types a name into the form (the name field is never disabled)
typeName ==
    /\ form.mounted
    /\ form.name = <<>>
    /\ Typed < MaxTyped
    /\ form' = [form EXCEPT !.name = AiSummit]
    /\ UNCHANGED <<header, toasts>>
    /\ UNCHANGED <<scrapeVars, dbVars, page>>

\* the user fills another field that is empty (of the fields only the link
\* is ever disabled)
typeField ==
    \E f \in FieldNames \ {"name"} :
       /\ form.mounted
       /\ form[f] = EmptyFields[f]
       /\ Typed < MaxTyped
       /\ form' = [form EXCEPT ![f] = UserInput[f]]
       /\ UNCHANGED <<header, toasts>>
       /\ UNCHANGED <<scrapeVars, dbVars, page>>

\* clearTimeout(scrapeTimeoutRef.current): the timer the ref points to is
\* cleared if it is still armed
clearTimeout(timers) == SelectSeq(timers, LAMBDA t : ~t.current)

\* scrapeTimeoutRef.current = setTimeout(() => handleUrlChange(url), 1500):
\* the ref points to the new timer only
setTimeout(timers, url, last) ==
    Append([i \in 1..Len(timers) |-> [timers[i] EXCEPT !.current = FALSE]],
           [url |-> url, last |-> last, current |-> TRUE])

\* an onChange that arms the new timer and leaves the previous one armed
onChangeTimerKept ==
    \E url \in {<<>>, MailUrl, EventUrl, GalaUrl} :
       /\ form.mounted
       /\ ~form.isScraping
       /\ url # form.event_link
       /\ form' = [form EXCEPT
                     !.event_link = url,
                     !.timers = IF StartsWithHttpScheme(url)
                                THEN setTimeout(form.timers, url, form.lastScrapedUrl)
                                ELSE form.timers]
       /\ UNCHANGED <<header, toasts>>
       /\ UNCHANGED <<scrapeVars, dbVars, page>>
\* AddConferenceForm.tsx lines 534-549: the link field is edited (it is
\* disabled while isScraping); the previous timer is cleared and, if the
\* link starts with http:// or https://, a new one is armed
onChange ==
    \E url \in {<<>>, MailUrl, EventUrl, GalaUrl} :
       /\ form.mounted
       /\ ~form.isScraping
       /\ url # form.event_link
       /\ form' = [form EXCEPT
                     !.event_link = url,
                     !.timers = IF StartsWithHttpScheme(url)
                                THEN setTimeout(clearTimeout(form.timers), url,
                                                form.lastScrapedUrl)
                                ELSE clearTimeout(form.timers)]
       /\ UNCHANGED <<header, toasts>>
       /\ UNCHANGED <<scrapeVars, dbVars, page>>

\* a sequence without its i-th element
Without(s, i) == SubSeq(s, 1, i - 1) \o SubSeq(s, i + 1, Len(s))

\* AddConferenceForm.tsx lines 545 and 461-475: a timer fires, the debounce
\* time after it was armed, and calls handleUrlChange with its url
handleUrlChange ==
    \E i \in 1..Len(form.timers) :
       LET url == form.timers[i].url
           lastScrapedUrl == form.timers[i].last
       IN  /\ Len(toasts) < MaxToasts
           /\ IF url = <<>> \/ url = lastScrapedUrl \/ ~StartsWithHttpScheme(url)
              THEN form' = [form EXCEPT !.timers = Without(form.timers, i)]
              ELSE form' = [form EXCEPT !.timers = Without(form.timers, i),
                                        !.pc = "fetch", !.isScraping = TRUE,
                                        !.inFlight = Append(form.inFlight, url),
                                        !.outcome = "none"]
           /\ UNCHANGED <<header, toasts>>
           /\ UNCHANGED <<scrapeVars, dbVars, page>>

\* a fill that does not look at the field
setAlways(current, isEmpty, scraped, isTruthy) ==
    IF isTruthy THEN scraped ELSE current
\* AddConferenceForm.tsx lines 484-501:
\* if (scrapedData.x && !form.getValues("x")) form.setValue("x", scrapedData.x)
setIfEmpty(current, isEmpty, scraped, isTruthy) ==
    IF isTruthy /\ isEmpty THEN scraped ELSE current

\* AddConferenceForm.tsx lines 468-510: the fetch of a request settles.  When
\* the form is unmounted its state is gone: of the handler the notification
\* is left
urlScrapeSettles ==
    \E i \in 1..Len(form.inFlight), settled \in Settlements :
       LET url == form.inFlight[i]
           rest == Without(form.inFlight, i)
           position == IF rest = <<>> THEN "idle" ELSE "fetch"
           scrapedData == settled.data
       IN  /\ IF thrown(settled).some
              THEN /\ toasts' = catchUrlChange(toasts, thrown(settled).v)
                   /\ form' = IF ~form.mounted
                              THEN [form EXCEPT !.pc = position, !.inFlight = rest]
                              ELSE [form EXCEPT !.pc = position, !.inFlight = rest,
                                                !.isScraping = FALSE,
                                                !.outcome = "failed"]
              ELSE /\ toasts' = Append(toasts,
                        SuccessToast(<<"Event details scraped and filled automatically!">>))
                   /\ form' = IF ~form.mounted
                              THEN [form EXCEPT !.pc = position, !.inFlight = rest]
                              ELSE [form EXCEPT
                                 !.pc = position, !.inFlight = rest,
                                 !.isScraping = FALSE,
                                 !.name = setIfEmpty(form.name, form.name = <<>>,
                                             scrapedData.name.v,
                                             Truthy(scrapedData.name)),
                                 !.location = setIfEmpty(form.location,
                                             form.location = <<>>,
                                             scrapedData.location.v,
                                             Truthy(scrapedData.location)),
                                 !.start_date = setIfEmpty(form.start_date,
                                             ~form.start_date.some,
                                             scrapedData.start_date,
                                             scrapedData.start_date.some),
                                 !.end_date = setIfEmpty(form.end_date,
                                             ~form.end_date.some,
                                             scrapedData.end_date,
                                             scrapedData.end_date.some),
                                 !.notes = setIfEmpty(form.notes, form.notes = <<>>,
                                             scrapedData.description.v,
                                             Truthy(scrapedData.description)),
                                 !.lastScrapedUrl = url,
                                 !.outcome = "scraped"]
           /\ UNCHANGED header
           /\ UNCHANGED <<scrapeVars, dbVars, page>>

\* AddConferenceForm.tsx lines 247-254: the form is unmounted and the cleanup
\* of its effect clears the timer of the ref.  The requests in flight are not
\* aborted
unmount ==
    /\ form.mounted
    /\ form' = [FormOpened EXCEPT !.mounted = FALSE,
                                  !.pc = form.pc, !.inFlight = form.inFlight,
                                  !.timers = clearTimeout(form.timers)]
    /\ UNCHANGED <<header, toasts>>
    /\ UNCHANGED <<scrapeVars, dbVars, page>>

NextUi ==
    \/ handleScrape
    \/ scrapeSettles
    \/ typeName
    \/ typeField
    \/ onChange
    \/ handleUrlChange
    \/ urlScrapeSettles
    \/ unmount

SpecUi == InitUi /\ [][NextUi]_vars

-----------------------------------------------------------------------------
(* Two invocations of scrapeEventData in one server process.  They share   *)
(* what the module keeps between calls, which is nothing, and the zone of  *)
(* the process; each has its own url, response and record.  Their steps    *)
(* interleave at the awaits (fetch, response.text): one invocation may end *)
(* before the other starts, or they overlap.                               *)

RunUrls == {EventUrl, GalaUrl}

RunPages ==
    {PlainPage(<<ObjectBlock(Event(Scalar("Event"), Scalar(AiSummit), NoLocation, d,
                                   NoOffers, Absent, Absent))>>) : d \in Dates}
      \cup {Page(<<>>, SomeStr(TechSummit2025), d, NoDate, <<>>, <<>>, <<>>) :
               d \in LabeledDates}

InitTwo ==
    /\ runs = NoRuns
    /\ tz \in Zones
    /\ pc = "start"
    /\ body = ObjectBody(NoUrl)
    /\ target = <<>>
    /\ fetched = NoResponse
    /\ outcome = NoOutcome
    /\ responses = <<>>
    /\ extracted = 0
    /\ arg = 0
    /\ ret = 0
    /\ DatabaseUnused
    /\ UiUnused

\* line 580: scrapeEventData(url) is called and calls fetch
scrapeEventDataCalled ==
    \E i \in Runs, url \in RunUrls :
       /\ runs[i].pc = "start"
       /\ runs' = [runs EXCEPT ![i].pc = "fetch", ![i].url = url]
       /\ UNCHANGED <<pc, body, tz, target, fetched, outcome, responses, extracted, arg, ret>>
       /\ UNCHANGED <<dbVars, uiVars>>

\* lines 583-592 and 634-636: fetch rejects, or resolves with a response
scrapeFetchSettles ==
    \E i \in Runs :
       /\ runs[i].pc = "fetch"
       /\ \/ runs' = [runs EXCEPT ![i].pc = "done",
                         ![i].outcome = Threw(wrapScrapeError(Error(<<"fetch failed">>)))]
          \/ \E response \in Responses :
                runs' = IF response.ok
                        THEN [runs EXCEPT ![i].pc = "text"]
                        ELSE [runs EXCEPT ![i].pc = "done",
                                 ![i].outcome =
                                    Threw(wrapScrapeError(fetchStatusError(response)))]
       /\ UNCHANGED <<pc, body, tz, target, fetched, outcome, responses, extracted, arg, ret>>
       /\ UNCHANGED <<dbVars, uiVars>>

\* lines 594-632: the markup is read and the record is extracted from it
scrapeTextSettles ==
    \E i \in Runs, html \in RunPages :
       /\ runs[i].pc = "text"
       /\ runs' = [runs EXCEPT ![i].pc = "done", ![i].html = html,
                      ![i].outcome = Returned(extractEvent(html, runs[i].url, tz))]
       /\ UNCHANGED <<pc, body, tz, target, fetched, outcome, responses, extracted, arg, ret>>
       /\ UNCHANGED <<dbVars, uiVars>>

NextTwo == scrapeEventDataCalled \/ scrapeFetchSettles \/ scrapeTextSettles

SpecTwo == InitTwo /\ [][NextTwo]_vars

-----------------------------------------------------------------------------
(* The data-management page (app/data/page.tsx) over the tables people and *)
(* conferences.  The page keeps the lists it has loaded; while it shows    *)
(* them, other sessions create, reassign and delete conferences.  Of       *)
(* createConference and updateConference only the statement on the table   *)
(* conferences is kept here, the ratings being left out.  One handler of   *)
(* the page runs at a time.                                                *)

\* the people of the table when the page is opened, one per email
PeopleAtStart ==
    {[id |-> 1, email |-> "ada@knightec.se"], [id |-> 2, email |-> "bo@knightec.se"]}
PersonIds == {p.id : p \in PeopleAtStart}

\* what a form can hold as assigned_to: 0 for null (Unassigned), or a
\* person of the list the form has loaded, who may be deleted by now
Assignees == {0} \cup PersonIds

\* assigned_to UUID REFERENCES people(id), on a delete from people: a
\* conference row refers to the person
ReferenceNotEnforced(personId) == FALSE
StillReferenced(personId) == \E a \in assigned_to : a.person_id = personId

\* the same constraint on an insert or update of conferences: the person
\* is not in people
NoSuchPerson(personId) ==
    personId # 0 /\ \A p \in people : p.id # personId

\* the column assigned_to after the row conferenceId got the value personId
assign(conferenceId, personId) ==
    {a \in assigned_to : a.conference_id # conferenceId}
       \cup (IF personId = 0 THEN {}
             ELSE {[conference_id |-> conferenceId, person_id |-> personId]})

\* select * from conferences, as the page keeps it: [id, assigned_to]
conferenceRows ==
    {[id |-> c,
      assigned_to |-> IF \E a \in assigned_to : a.conference_id = c
                      THEN (CHOOSE a \in assigned_to : a.conference_id = c).person_id
                      ELSE 0] : c \in conferences}

NoToast == [kind |-> "none", message |-> ""]

\* the page: the lists it shows, what loadData still waits for ("both",
\* "people", "conferences" or "none") with the list that has arrived,
\* the handler that is awaiting its statement, and the toast shown last
DataPage(peopleList, conferenceList, load, loaded, at, id, toast) ==
    [people |-> peopleList, conferences |-> conferenceList, load |-> load,
     loaded |-> loaded, pc |-> at, id |-> id, toast |-> toast]

\* lines 40-59: the page is mounted and loadData has begun
InitData ==
    /\ ScraperUnused
    /\ conferences = {}
    /\ ratings = {}
    /\ people = PeopleAtStart
    /\ categories = {}
    /\ offices = {}
    /\ assigned_to = {}
    /\ calls = [c \in Clients |-> Idle(NotCalled)]
    /\ header = 0
    /\ form = 0
    /\ toasts = <<>>
    /\ page = DataPage({}, {}, "both", {}, "idle", 0, NoToast)

\* lib/db createConference, lines 399-403, in another session: the insert
\* into conferences with the assigned_to of the form
insertConference ==
    \E personId \in Assignees :
       /\ conferences # ConferenceIds
       /\ IF NoSuchPerson(personId)
          THEN UNCHANGED <<conferences, assigned_to>>
          ELSE /\ conferences' =
                     conferences \cup {freshId({[id |-> i] : i \in conferences})}
               /\ assigned_to' =
                     assign(freshId({[id |-> i] : i \in conferences}), personId)
       /\ UNCHANGED <<ratings, people, categories, offices, calls>>
       /\ UNCHANGED <<scrapeVars, uiVars>>

\* lib/db updateConference, lines 580-584, in another session: the update
\* of the row with the assigned_to of the form
updateAssignedTo ==
    \E conferenceId \in conferences, personId \in Assignees :
       /\ IF NoSuchPerson(personId)
          THEN UNCHANGED assigned_to
          ELSE assigned_to' = assign(conferenceId, personId)
       /\ UNCHANGED <<conferences, ratings, people, categories, offices, calls>>
       /\ UNCHANGED <<scrapeVars, uiVars>>

\* lib/db getAllPeople, lines 5-17, awaited by loadData (page.tsx lines
\* 43-48): when both lists have arrived they are shown
getAllPeople ==
    /\ page.load \in {"both", "people"}
    /\ page' = IF page.load = "both"
               THEN [page EXCEPT !.load = "conferences",
                                 !.loaded = {p.id : p \in people}]
               ELSE [page EXCEPT !.load = "none", !.loaded = {},
                                 !.people = {p.id : p \in people},
                                 !.conferences = page.loaded]
    /\ UNCHANGED <<header, form, toasts>>
    /\ UNCHANGED <<scrapeVars, dbVars>>

\* lib/db getAllConferences, lines 42-54, awaited by loadData
getAllConferences ==
    /\ page.load \in {"both", "conferences"}
    /\ page' = IF page.load = "both"
               THEN [page EXCEPT !.load = "people", !.loaded = conferenceRows]
               ELSE [page EXCEPT !.load = "none", !.loaded = {},
                                 !.people = page.loaded,
                                 !.conferences = conferenceRows]
    /\ UNCHANGED <<header, form, toasts>>
    /\ UNCHANGED <<scrapeVars, dbVars>>

\* page.tsx lines 49-54: one of the two selects is rejected; the lists
\* stay as they are
loadDataFails ==
    /\ page.load # "none"
    /\ page' = [page EXCEPT !.load = "none", !.loaded = {},
                            !.toast = ErrorToast("Failed to load data")]
    /\ UNCHANGED <<header, form, toasts>>
    /\ UNCHANGED <<scrapeVars, dbVars>>

\* page.tsx lines 61-70: Delete is pressed for a person of the list; the
\* handler looks for the person in the conferences the page has loaded
handleDeletePerson ==
    \E id \in page.people :
       /\ page.load = "none"
       /\ page.pc = "idle"
       /\ page' = IF \E c \in page.conferences : c.assigned_to = id
                  THEN [page EXCEPT !.toast = ErrorToast("Cannot delete person")]
                  ELSE [page EXCEPT !.pc = "deletePerson", !.id = id]
       /\ UNCHANGED <<header, form, toasts>>
       /\ UNCHANGED <<scrapeVars, dbVars>>

\* lib/db deletePerson, lines 542-552, and page.tsx lines 70-76: the delete
\* is executed; Postgres refuses it while a conference refers to the person
deletePerson ==
    /\ page.pc = "deletePerson"
    /\ IF StillReferenced(page.id)
       THEN /\ UNCHANGED people
            /\ page' = [page EXCEPT !.pc = "idle", !.id = 0,
                                    !.toast = ErrorToast("Failed to delete person")]
       ELSE /\ people' = {p \in people : p.id # page.id}
            /\ page' = [page EXCEPT !.pc = "idle", !.id = 0, !.load = "both",
                                    !.toast = SuccessToast("Person deleted successfully")]
    /\ UNCHANGED <<conferences, ratings, categories, offices, assigned_to, calls>>
    /\ UNCHANGED <<header, form, toasts>>
    /\ UNCHANGED scrapeVars

\* page.tsx lines 79-88 with lib/db deleteConference: a conference of the
\* list is deleted, and the lists are loaded again
handleDeleteConference ==
    \E c \in page.conferences :
       /\ page.load = "none"
       /\ page.pc = "idle"
       /\ conferences' = conferences \ {c.id}
       /\ assigned_to' = {a \in assigned_to : a.conference_id # c.id}
       /\ ratings' = cascade(c.id)
       /\ page' = [page EXCEPT !.load = "both",
                               !.toast = SuccessToast("Conference deleted successfully")]
       /\ UNCHANGED <<people, categories, offices, calls>>
       /\ UNCHANGED <<header, form, toasts>>
       /\ UNCHANGED scrapeVars

NextData ==
    \/ insertConference
    \/ updateAssignedTo
    \/ getAllPeople
    \/ getAllConferences
    \/ loadDataFails
    \/ handleDeletePerson
    \/ deletePerson
    \/ handleDeleteConference

SpecData == InitData /\ [][NextData]_vars

-----------------------------------------------------------------------------
(* Properties of scrapeEventData and of the handler, checked under Spec *)

\* scrapeEventData has returned a record
Scraped == pc = "done" /\ outcome.k = "returned"

ContentFields ==
    {"name", "location", "start_date", "end_date", "price", "description", "url"}

\* C1: on a successful fetch the record returned is the structured one if
\* and only if parseSchemaOrgJsonLd found an Event with a non-empty name,
\* and the fallback record otherwise; its url is the Event's own url when
\* it has one and the requested url otherwise, and its category and
\* suggestions are the classifier's.
C1_StructuredIffNamedEvent ==
    Scraped =>
        LET schemaData == parseSchemaOrgJsonLd(fetched.html, tz)
            htmlData == parseHtmlFallback(fetched.html, target, tz)
            structured == schemaData.found /\ Truthy(schemaData.data.name)
            detected == detectCategories(outcome.data)
        IN  /\ structured =>
                  /\ \A f \in ContentFields \ {"location", "url"} :
                        outcome.data[f] = schemaData.data[f]
                  /\ outcome.data.url =
                        IF Truthy(schemaData.data.url) THEN schemaData.data.url
                        ELSE SomeStr(target)
            /\ ~structured =>
                  \A f \in ContentFields : outcome.data[f] = htmlData[f]
            /\ outcome.data.url.some
            /\ outcome.data.category = detected.primary
            /\ outcome.data.suggestedCategories = detected.suggestions

\* C1 happens: a named Event with a url of its own was found and classified
C1_Witness ==
    /\ Scraped
    /\ parseSchemaOrgJsonLd(fetched.html, tz).found
    /\ outcome.data.name = SomeStr(AiSummit)
    /\ outcome.data.url = SomeStr(GalaUrl)
    /\ outcome.data.url # SomeStr(target)
    /\ outcome.data.category.some

ScrapePrefix == "Failed to scrape event data: "

\* C3: after a response with a non-success status nothing is extracted and
\* no record is returned; scrapeEventData throws one error, whose message
\* is the prefix of its catch followed by the message of the failure, with
\* the status code and the reason phrase.  Every failure is wrapped once.
C3_FailureWrappedOnce ==
    /\ (pc = "done" /\ fetched.status # 0 /\ ~fetched.ok) =>
          /\ outcome.k = "threw"
          /\ outcome.data = EmptyEvent
          /\ extracted = 0
          /\ ~fetched.read
          /\ outcome.error.message =
                <<ScrapePrefix, "Failed to fetch URL: ", ToString(fetched.status),
                  " ", fetched.statusText>>
    /\ outcome.k = "threw" =>
          /\ outcome.error.isError
          /\ Len(outcome.error.message) >= 2
          /\ \A i \in 1..Len(outcome.error.message) :
                outcome.error.message[i] = ScrapePrefix <=> i = 1

\* C3 happens: the target answered 404 Not Found
C3_Witness ==
    /\ pc = "done"
    /\ fetched.status = 404
    /\ outcome.k = "threw"

\* C4: the handler gives one response and no more, when it is done; its
\* status is 200, 400 or 500; a failure of scrapeEventData is answered
\* with 500 and the message of the failure; the handler always has a next
\* step (its check of the body, or the rejection it awaits) until it has
\* answered.
C4_OneResponse ==
    /\ Len(responses) <= 1
    /\ pc = "done" <=> Len(responses) = 1
    /\ pc # "done" => ENABLED (POST \/ fetchRejects \/ textRejects)
    /\ \A i \in 1..Len(responses) : responses[i].status \in {200, 400, 500}
    /\ outcome.k = "threw" =>
          /\ pc = "done"
          /\ responses[1].status = 500
          /\ ~responses[1].hasData
          /\ responses[1].error = SomeStr(outcome.error.message)

\* C4 happens: the target host was not reached, and the answer is 500
C4_Witness ==
    /\ pc = "done"
    /\ fetched = NoResponse
    /\ outcome.k = "threw"
    /\ responses[1].status = 500

\* C2: the location of a returned record never parses as a URL.
C2_LocationNeverUrl ==
    (Scraped /\ outcome.data.location.some) =>
        ~ParsesAsUrl(outcome.data.location.v)

\* C5: a request whose body has no url member, or one that is not a
\* string, is answered with 400 and "URL is required".
C5_UrlRequired ==
    (pc = "done" /\ body.k # "unparseable" /\ body.url.k # "str") =>
        responses = <<ErrorResponse(400, <<"URL is required">>)>>

\* the url of the request is a string that new URL rejects
UrlDoesNotParse ==
    body.k = "object" /\ body.url.k = "str" /\ ~ParsesAsUrl(body.url.s)

\* no call of scrapeEventData has been made: no url was handed over, no
\* fetch was answered and nothing was extracted
NotScraped ==
    target = <<>> /\ fetched = NoResponse /\ outcome = NoOutcome /\ extracted = 0

\* C6, as claimed: a request whose url is a string that does not parse as
\* a URL is answered with 400 and "Invalid URL format".
C6_AnyStringInvalidFormat ==
    (pc = "done" /\ UrlDoesNotParse) =>
        responses = <<ErrorResponse(400, <<"Invalid URL format">>)>>

\* C6, amended: a request whose url is a non-empty string that does not
\* parse as a URL is answered with 400 and "Invalid URL format", and a
\* request answered with 400 has made no call of scrapeEventData.
C6_InvalidUrlRejected ==
    /\ (pc = "done" /\ UrlDoesNotParse /\ body.url.s # <<>>) =>
          responses = <<ErrorResponse(400, <<"Invalid URL format">>)>>
    /\ (responses # <<>> /\ responses[1].status = 400) => NotScraped

\* C6 happens: "not a url" was posted and answered with 400
C6_Witness ==
    /\ pc = "done"
    /\ body = ObjectBody(StringUrl(NotAUrl))
    /\ responses # <<>>
    /\ responses[1].status = 400

\* the @type denotes an Event: the bare token, the schema URI, or an array
\* that holds the bare token
DenotesEvent(type) ==
    \/ type = Scalar("Event")
    \/ type = Scalar(SchemaOrgEventUri)
    \/ type.k = "arr" /\ "Event" \in {type.v[i] : i \in 1..Len(type.v)}

\* no entry of a linked-data block of the page is an Event
NoLinkedDataEvent(html) ==
    \A b \in 1..Len(html.blocks) : \A e \in 1..Len(html.blocks[b].items) :
        html.blocks[b].items[e].null \/ ~DenotesEvent(html.blocks[b].items[e].type)

\* C8: when the body of a page without a linked-data Event has been read,
\* scrapeEventData returns; the name is the content of the title element
\* without its tags and without the space around it; the url is the
\* requested one; start_date is set exactly when one of the two date
\* matches parses; location and price are unset when nothing matched.
C8_FallbackNeverThrows ==
    (pc = "done" /\ fetched.read /\ NoLinkedDataEvent(fetched.html)) =>
        /\ outcome.k = "returned"
        /\ outcome.data.name.some = fetched.html.title.some
        /\ outcome.data.name.some =>
              /\ outcome.data.name.v = trim(stripTags(fetched.html.title.v))
              /\ \A i \in 1..Len(outcome.data.name.v) : ~IsTag(outcome.data.name.v[i])
              /\ outcome.data.name.v # <<>> =>
                    /\ ~IsSpace(outcome.data.name.v[1])
                    /\ ~IsSpace(outcome.data.name.v[Len(outcome.data.name.v)])
        /\ outcome.data.url = SomeStr(target)
        /\ outcome.data.start_date.some <=>
              \/ parseDate(fetched.html.dateLabeled, tz).some
              \/ parseDate(fetched.html.dateBare, tz).some
        /\ fetched.html.locs = <<>> => ~outcome.data.location.some
        /\ (fetched.html.priceLabeled = <<>> /\ fetched.html.priceCurrency = <<>>) =>
              ~outcome.data.price.some
        /\ ~outcome.data.end_date.some
        /\ ~outcome.data.description.some

\* C8 happens: a page that has a title with tags and space around it, and
\* no date, location or price to match
C8_Witness ==
    /\ Scraped
    /\ fetched.html.blocks = <<>>
    /\ fetched.html.title = SomeStr(<<" ", "<b>", "Gala", "</b>", " ", "2025", "  ">>)
    /\ outcome.data.name = SomeStr(<<"Gala", " ", "2025">>)
    /\ ~outcome.data.start_date.some
    /\ ~outcome.data.location.some
    /\ ~outcome.data.price.some

\* C9: the price of a returned record is never negative.
C9_PriceNonNegative ==
    (Scraped /\ outcome.data.price.some) => ~IsNegative(outcome.data.price.v)

-----------------------------------------------------------------------------
(* Properties of parseSchemaOrgJsonLd, checked under SpecJsonLd *)

\* a block that parses and holds objects only, whose offers are objects
WellFormedBlock(block) ==
    /\ block.k # "malformed"
    /\ \A e \in 1..Len(block.items) :
          /\ ~block.items[e].null
          /\ \A o \in 1..Len(block.items[e].offers.v) :
                ~block.items[e].offers.v[o].null

\* the entry has a name: a non-empty string, or a non-empty array
HasName(entry) ==
    \/ entry.name.k = "str" /\ entry.name.v[1] # <<>>
    \/ entry.name.k = "arr" /\ entry.name.v # <<>>

\* the Event entries with a name in the well-formed blocks of a page
NamedEvents(html) ==
    UNION {{html.blocks[b].items[e] :
              e \in {x \in 1..Len(html.blocks[b].items) :
                        /\ DenotesEvent(html.blocks[b].items[x].type)
                        /\ HasName(html.blocks[b].items[x])}} :
           b \in {y \in 1..Len(html.blocks) : WellFormedBlock(html.blocks[y])}}

\* C7, as claimed: for a page with a well-formed Event block that has a
\* name, the extractor returns a record, whose name is the name of the block.
C7_AnyNamedEventFound ==
    (pc = "done" /\ NamedEvents(arg) # {}) =>
        /\ ret.found
        /\ \E entry \in NamedEvents(arg) : ret.data.name = SomeStr(entry.name.v[1])

\* entry e of block b is the first Event entry of the page
FirstEvent(html, b, e) ==
    /\ DenotesEvent(html.blocks[b].items[e].type)
    /\ \A x \in 1..(e - 1) : ~DenotesEvent(html.blocks[b].items[x].type)
    /\ \A y \in 1..(b - 1) : \A x \in 1..Len(html.blocks[y].items) :
          ~DenotesEvent(html.blocks[y].items[x].type)

\* C7, amended: when every block of the page that parses is well formed,
\* the extractor returns the record of the first Event entry of the page,
\* in document order; its name is the name of that entry (the string, or
\* the first element of the array) and is unset when the entry has none.
C7_FirstEventName ==
    (pc = "done" /\ \A b \in 1..Len(arg.blocks) :
                        arg.blocks[b].k = "malformed" \/ WellFormedBlock(arg.blocks[b])) =>
        \A b \in 1..Len(arg.blocks) : \A e \in 1..Len(arg.blocks[b].items) :
            FirstEvent(arg, b, e) =>
                /\ ret.found
                /\ HasName(arg.blocks[b].items[e]) =>
                      ret.data.name = SomeStr(arg.blocks[b].items[e].name.v[1])
                /\ ~HasName(arg.blocks[b].items[e]) => ~ret.data.name.some

\* C7 happens: after a block that does not parse, an Event whose type is
\* the schema URI and whose name is an array
C7_Witness ==
    /\ pc = "done"
    /\ Len(arg.blocks) = 2
    /\ arg.blocks[1] = MalformedBlock
    /\ Len(arg.blocks[2].items) = 1
    /\ arg.blocks[2].items[1].type = Scalar(SchemaOrgEventUri)
    /\ arg.blocks[2].items[1].name = Array(<<Gala, AiSummit>>)
    /\ ret.found
    /\ ret.data.name = SomeStr(Gala)

-----------------------------------------------------------------------------
(* Properties of detectCategories, checked under SpecCategories *)

\* name, description and url joined by single spaces, in lower case
LoweredText(eventData) ==
    [i \in 1..(Len(eventData.name.v) + Len(eventData.description.v)
                 + Len(eventData.url.v) + 2) |->
        toLowerCase((eventData.name.v \o <<" ">> \o eventData.description.v
                       \o <<" ">> \o eventData.url.v)[i])]

\* the texts of the keywords of the taxonomy
KeywordTexts ==
    UNION {{concat(categoryKeywords[c].keywords[k]) :
              k \in 1..Len(categoryKeywords[c].keywords)} :
           c \in 1..Len(categoryKeywords)}

\* lexemes i..j of text are whole words: no word character comes right
\* before them or right after them
WholeWords(text, i, j) ==
    /\ IsWordLexeme(text[i]) /\ IsWordLexeme(text[j])
    /\ i = 1 \/ ~IsWordLexeme(text[i - 1])
    /\ j = Len(text) \/ ~IsWordLexeme(text[j + 1])

\* some keyword of the taxonomy occurs in text as a whole word
KeywordOccurs(text) ==
    \E i \in 1..Len(text) : \E j \in i..Len(text) :
        WholeWords(text, i, j) /\ concat(SubSeq(text, i, j)) \in KeywordTexts

\* C10: primary is null and the suggestions are empty exactly when no
\* keyword of the taxonomy occurs as a whole word in the lower-cased text
\* of name, description and url; otherwise primary is the first suggestion.
C10_NullExactlyWhenNoKeyword ==
    pc = "done" =>
        /\ (~ret.primary.some /\ ret.suggestions = <<>>) <=>
              ~KeywordOccurs(LoweredText(arg))
        /\ ~ret.primary.some <=> ret.suggestions = <<>>
        /\ ret.primary.some => ret.primary.v = ret.suggestions[1]

\* C10 happens: "openAI" holds the keyword "ai", but not as a whole word
C10_Witness ==
    /\ pc = "done"
    /\ arg.name = SomeStr(<<"open", "AI">>)
    /\ ~arg.description.some
    /\ ~arg.url.some
    /\ ret.primary = NoLabel
    /\ ret.suggestions = <<>>

-----------------------------------------------------------------------------
(* Properties of the rating and conference calls of lib/db, checked under  *)
(* SpecDb                                                                  *)

\* C11: in every state that interleaved createConference, updateConference,
\* createOrUpdateRating, deleteRating and deleteConference calls reach, no
\* two rating rows have the same conference_id.
C11_OneRatingPerConference ==
    \A r1 \in ratings, r2 \in ratings :
       r1.conference_id = r2.conference_id => r1 = r2

\* an insert of a second rating row for a conference was attempted, was
\* refused for the unique constraint, and the first row is still there
C11_Witness ==
    /\ \E c \in Clients : calls[c].result.code = "23505"
    /\ ratings # {}

\* C12: no call ends in a failure caused by a rating row of the conference
\* being there already (upsert by conference_id).
C12_NeverFailsOnExistingRating ==
    \A c \in Clients : calls[c].result.code # "23505"

\* C13: every rating row refers to a conference row that exists.
C13_RatingsReferToConferences ==
    \A r \in ratings : r.conference_id \in conferences

\* a rating insert sent after the conference was deleted was refused for
\* the foreign key: deleteConference interleaved with createOrUpdateRating
C13_Witness ==
    \E c \in Clients : calls[c].result.code = "23503"

-----------------------------------------------------------------------------
(* Properties of createPerson, createCategory and createOffice, checked    *)
(* under SpecCreate                                                        *)

\* the table a create call inserts into, and the column that is unique
TableOf(op) ==
    IF op = "createPerson" THEN {p.email : p \in people}
    ELSE IF op = "createCategory" THEN {r.name : r \in categories}
    ELSE {r.name : r \in offices}

AlreadyExists(op) ==
    IF op = "createPerson" THEN "Email already exists. Please use a different email."
    ELSE IF op = "createCategory" THEN "Category already exists. Please use a different name."
    ELSE "Office already exists. Please use a different name."

NoDuplicates ==
    /\ \A p \in people, q \in people : p.email = q.email => p = q
    /\ \A r \in categories, q \in categories : r.name = q.name => r = q
    /\ \A r \in offices, q \in offices : r.name = q.name => r = q

\* a call that Postgres answered and whose value is in the table already
\* throws the dedicated error of its table and leaves the three tables as
\* they are; and a call throws the dedicated error only for code 23505
DuplicateRefused ==
    \A c \in Clients :
       calls'[c] # calls[c] =>
          /\ calls'[c].value \in TableOf(calls'[c].op) =>
                /\ calls'[c].result.k = "threw"
                /\ <<people, categories, offices>>' = <<people, categories, offices>>
          /\ (calls'[c].value \in TableOf(calls'[c].op) /\ calls'[c].result.code # "")
                => calls'[c].result.message = AlreadyExists(calls'[c].op)
          /\ calls'[c].result.k = "threw" =>
                (calls'[c].result.message = AlreadyExists(calls'[c].op)
                   <=> calls'[c].result.code = "23505")

\* C14: after any interleaving of createPerson, createCategory and
\* createOffice calls no two people share an email and no two categories
\* or offices share a name; a call whose value exists already fails with
\* the 'already exists' error of its table, which is told from any other
\* failure by the error code 23505, and leaves the tables unchanged.
C14_UniqueAndRefused == []NoDuplicates /\ [][DuplicateRefused]_vars

\* a duplicate was refused with the dedicated error while another client's
\* call failed for another reason
C14_Witness ==
    /\ calls["a"].result = Rejected("Category already exists. Please use a different name.", "23505")
    /\ calls["b"].result = Rejected("Failed to create office", "")
    /\ Cardinality(people) = 2

-----------------------------------------------------------------------------
(* parseSchemaOrgJsonLd and the Event without a name, checked under        *)
(* SpecJsonLd                                                              *)

\* C17, as claimed: the extractor returns null when no script block holds
\* an Event entity, and returns null when the Event it matched has no name.
C17_NullWithoutEventOrName ==
    pc = "done" =>
        /\ NoLinkedDataEvent(arg) => ret = NotFound
        /\ \A b \in 1..Len(arg.blocks) : \A e \in 1..Len(arg.blocks[b].items) :
              (FirstEvent(arg, b, e) /\ ~HasName(arg.blocks[b].items[e]))
                 => ret = NotFound

\* C17, amended: the extractor returns null when no script block holds an
\* Event entity; when the first Event of a page whose blocks are well
\* formed has no name, it returns a record, whose name is unset.
C17_NullWithoutEvent ==
    pc = "done" =>
        /\ NoLinkedDataEvent(arg) => ret = NotFound
        /\ (\A b \in 1..Len(arg.blocks) :
               arg.blocks[b].k = "malformed" \/ WellFormedBlock(arg.blocks[b])) =>
             \A b \in 1..Len(arg.blocks) : \A e \in 1..Len(arg.blocks[b].items) :
                (FirstEvent(arg, b, e) /\ ~HasName(arg.blocks[b].items[e]))
                   => (ret.found /\ ~ret.data.name.some)

\* an Event without a name, after a block without any Event, was read and
\* a record was returned for it
C17_Witness ==
    /\ pc = "done"
    /\ Len(arg.blocks) = 2
    /\ arg.blocks[1] = ObjectBlock(PlaceEntry)
    /\ Len(arg.blocks[2].items) = 1
    /\ arg.blocks[2].items[1].type = Scalar("Event")
    /\ arg.blocks[2].items[1].name = Absent
    /\ ret = Found(EmptyEvent)

-----------------------------------------------------------------------------
(* Properties of parseDate, checked under SpecDate *)

\* the calendar dates a date string can be read as writing: year, month
\* and day of the ISO forms; of a/b/y and a-b-y, month a and day b (US) or
\* day a and month b (European), whichever is a date
WrittenDates(s) ==
    IF s.fmt \in {"iso", "isoT", "isoZ", "isoOff"}
    THEN {IsoDate(s.y, s.a, s.b)}
    ELSE IF s.fmt \in {"slash", "dash"}
    THEN {d \in {IsoDate(s.y, s.a, s.b), IsoDate(s.y, s.b, s.a)} :
             ValidYMD(d.y, d.a, d.b)}
    ELSE {}

\* C18: the date parseDate returns is the year, month and day written in
\* its input, whatever the time of day, the offset and the zone of the
\* process (no timezone conversion).
C18_WrittenDateReturned ==
    (pc = "done" /\ arg.some /\ ret.some) => ret.v \in WrittenDates(arg.v)

\* C19: parseDate is idempotent on its output: when parseDate(s) is a date
\* d, parseDate(d) is d.
C19_Idempotent ==
    (pc = "done" /\ ret.some) => parseDate(ret, tz) = ret

\* a date-time with an offset was parsed east of UTC to the day before the
\* one written, a year earlier, and that date parses to itself
C19_Witness ==
    /\ pc = "done"
    /\ tz = 2
    /\ arg = SomeDate(DateStr("isoOff", 2025, 1, 1, 0, 2))
    /\ ret = SomeDate(IsoDate(2024, 12, 31))

-----------------------------------------------------------------------------
(* Properties of parsePrice, checked under SpecPrice *)

\* the value of the first digit run of s: the run starts at the first
\* digit, goes on over digits and thousands-separator commas, and takes a
\* decimal point and the digits after it; no value when s has no digit
FirstDigitRunValue(s) ==
    LET digitsAt == {i \in 1..Len(s) : s[i] \in Digits}
    IN  IF digitsAt = {} THEN NoNum
        ELSE LET i == CHOOSE x \in digitsAt : \A y \in digitsAt : x <= y
                 j == RunEnd(s, i, Digits \cup {","})
                 dot == j + 1 <= Len(s) /\ s[j + 1] = "."
                 frac == IF dot THEN SubSeq(s, j + 2, RunEnd(s, j + 2, Digits))
                         ELSE <<>>
             IN  SomeNum(parseFloat(SelectSeq(SubSeq(s, i, j), LAMBDA c : c # ","),
                                    frac))

\* C20: of a string parsePrice returns the value of the first digit run,
\* commas removed and the decimal part kept, and null when there is no
\* digit run; a number is returned as it is.
C20_FirstDigitRun ==
    pc = "done" =>
        /\ arg.k = "str" => ret = FirstDigitRunValue(arg.s)
        /\ arg.k = "num" => ret = SomeNum(arg.n)

-----------------------------------------------------------------------------
(* Properties of the scrape handlers of the UI, checked under SpecUi *)

\* the step ends a request of the component in a failure
Fails(before, after) ==
    before.pc = "fetch" /\ after.pc = "idle" /\ after.outcome = "failed"

\* the step shows one more notification, an error
OneErrorShown ==
    /\ Len(toasts') = Len(toasts) + 1
    /\ SubSeq(toasts', 1, Len(toasts)) = toasts
    /\ toasts'[Len(toasts')].kind = "error"

\* C16, as claimed: whenever a scrape request of the UI fails, one error
\* notification is shown, the scraping flag of the component is false
\* again, and the form can be filled by hand.
C16_FailureNotifiedOnce ==
    [][/\ Fails(header, header') => (OneErrorShown /\ ~header'.isScraping)
       /\ Fails(form, form') =>
             (OneErrorShown /\ ~form'.isScraping /\ form'.name = form.name)]_vars

\* C16, amended: a failed request of the Header dialog shows one error
\* notification and leaves the dialog without scraped data; a failed
\* request of the form's link field shows no notification and leaves the
\* fields as the user filled them; in both the scraping flag is false again
\* and the component takes input again.
C16_HeaderNotifiesFormSilent ==
    [][/\ Fails(header, header') =>
             /\ OneErrorShown
             /\ ~header'.isScraping
             /\ ~header'.showForm /\ ~header'.scrapedData.some
             /\ form' = form
       /\ Fails(form, form') =>
             /\ toasts' = toasts
             /\ ~form'.isScraping
             /\ form'.name = form.name /\ form'.event_link = form.event_link]_vars

\* both components have had a request fail, the user had typed a name, and
\* one error notification is on the screen
C16_Witness ==
    /\ header.outcome = "failed" /\ header.pc = "idle"
    /\ form.outcome = "failed" /\ form.pc = "idle"
    /\ form.name = AiSummit
    /\ toasts = <<ErrorToast(<<"Failed to scrape event">>)>>

-----------------------------------------------------------------------------
(* The scrape pipeline keeps no state, checked under SpecTwo *)

-----------------------------------------------------------------------------
(* The price of the offers, checked under Spec *)

RECURSIVE FirstParsingPrice(_)
\* the price of the first offer, in order, whose price parsePrice accepts
FirstParsingPrice(offers) ==
    IF offers = <<>> THEN NoNum
    ELSE IF parsePrice(Head(offers).price).some THEN parsePrice(Head(offers).price)
    ELSE FirstParsingPrice(Tail(offers))

\* C21: the price of the record of a named Event is the price of the first
\* of its offers, in array order, whose price parsePrice parses; it is
\* unset only when parsePrice parses the price of none of them.
C21_FirstParsingOffer ==
    (/\ pc = "done" /\ outcome.k = "returned"
     /\ \A b \in 1..Len(fetched.html.blocks) :
           fetched.html.blocks[b].k = "malformed"
              \/ WellFormedBlock(fetched.html.blocks[b])) =>
        \A b \in 1..Len(fetched.html.blocks) :
           \A e \in 1..Len(fetched.html.blocks[b].items) :
              (FirstEvent(fetched.html, b, e) /\ HasName(fetched.html.blocks[b].items[e]))
                 => outcome.data.price =
                       FirstParsingPrice(fetched.html.blocks[b].items[e].offers.v)

-----------------------------------------------------------------------------
(* The price of the fallback, checked under Spec *)

RECURSIVE capturedNumber(_)
\* group 1 of a match of either price expression: the match from its first
\* currency sign, digit or comma on
capturedNumber(m) ==
    IF m = <<>> THEN <<>>
    ELSE IF Head(m) \in Digits \cup {",", "$"} THEN m
    ELSE capturedNumber(Tail(m))

\* the number of the first match of the labeled expression or, failing
\* that, of the first match of the currency expression, normalised
firstMatchPrice(html) ==
    LET p1 == IF html.priceLabeled # <<>>
              THEN parsePrice(StrPrice(capturedNumber(html.priceLabeled[1])))
              ELSE NoNum
    IN  IF p1.some THEN p1
        ELSE IF html.priceCurrency # <<>>
             THEN parsePrice(StrPrice(capturedNumber(html.priceCurrency[1])))
             ELSE NoNum

\* C22: the price of a record made by the fallback is the normalised number
\* of the first match of the labeled price expression or, failing that, of
\* the first currency-adjacent number; a page whose only price text is
\* "Price: 100" gets price 100.
C22_FirstMatchPrice ==
    (pc = "done" /\ outcome.k = "returned" /\ fetched.html.blocks = <<>>)
        => outcome.data.price = firstMatchPrice(fetched.html)

-----------------------------------------------------------------------------
(* The order of the suggestions, checked under SpecCategories *)

RECURSIVE WholeWordTextsFrom(_, _, _)
\* the keywords of the taxonomy that the whole-word stretches i..j, i..j+1,
\* ... of text spell, one entry per stretch
WholeWordTextsFrom(text, i, j) ==
    IF j > Len(text) THEN <<>>
    ELSE (IF WholeWords(text, i, j) /\ concat(SubSeq(text, i, j)) \in KeywordTexts
          THEN <<concat(SubSeq(text, i, j))>> ELSE <<>>)
            \o WholeWordTextsFrom(text, i, j + 1)

RECURSIVE WholeWordTexts(_, _)
\* the same for the stretches that start at i or later
WholeWordTexts(text, i) ==
    IF i > Len(text) THEN <<>>
    ELSE WholeWordTextsFrom(text, i, i) \o WholeWordTexts(text, i + 1)

\* the keywords of the topics as strings
TopicKeywordTexts ==
    [c \in 1..Len(categoryKeywords) |->
        [k \in 1..Len(categoryKeywords[c].keywords) |->
            concat(categoryKeywords[c].keywords[k])]]

\* the number of whole-word occurrences of a keyword
Occurrences(stretches, keyword) ==
    Cardinality({i \in 1..Len(stretches) : stretches[i] = keyword})

RECURSIVE TopicScore(_, _, _)
\* the occurrences of keywords k.. of topic c, added up
TopicScore(stretches, c, k) ==
    IF k > Len(TopicKeywordTexts[c]) THEN 0
    ELSE Occurrences(stretches, TopicKeywordTexts[c][k])
            + TopicScore(stretches, c, k + 1)

RECURSIVE TopicScores(_, _)
\* the scores of topics c.., in declaration order
TopicScores(stretches, c) ==
    IF c > Len(categoryKeywords) THEN <<>>
    ELSE <<TopicScore(stretches, c, 1)>> \o TopicScores(stretches, c + 1)

\* the place of a topic in the declaration of the taxonomy
TopicIndex(name) ==
    CHOOSE c \in 1..Len(categoryKeywords) : categoryKeywords[c].name = name

TopicNames == {categoryKeywords[c].name : c \in 1..Len(categoryKeywords)}

\* C23: the suggestions are at most 5 distinct topics, each with a score
\* above zero, in non-increasing order of score (the score of a topic is
\* the number of whole-word occurrences of its keywords in the text); topics
\* of equal score stand in declaration order; and no topic left out scores
\* higher than a topic in the list.
C23_TopFiveByScore ==
    pc = "done" =>
        Const(SubSeq(LoweredText(arg), 1, Len(LoweredText(arg))), LAMBDA text :
        Const(TopicScores(WholeWordTexts(text, 1), 1), LAMBDA scores :
            LET s == ret.suggestions
                score(name) == scores[TopicIndex(name)]
            IN  /\ Len(s) <= 5
                /\ \A i \in 1..Len(s) : s[i] \in TopicNames /\ score(s[i]) > 0
                /\ \A i, j \in 1..Len(s) :
                      i < j =>
                         /\ s[i] # s[j]
                         /\ score(s[i]) >= score(s[j])
                         /\ score(s[i]) = score(s[j])
                               => TopicIndex(s[i]) < TopicIndex(s[j])
                /\ \A name \in TopicNames \ {s[i] : i \in 1..Len(s)} :
                      \A i \in 1..Len(s) : score(name) <= score(s[i])))

\* C23 happens: eight topics score, Conference scores most and leads the
\* list of five although it is declared late, and Sales is left out
C23_Witness ==
    /\ pc = "done"
    /\ arg.name = SomeStr(<<"Summit", " ", "Design">>)
    /\ arg.description = SomeStr(<<"sales", " ", "data", " ", "Developer", " ", "meetup">>)
    /\ arg.url = SomeStr(EventUrl)
    /\ ret.suggestions =
          <<"Conference", "Technology", "Design", "Business", "Data & Analytics">>

-----------------------------------------------------------------------------
(* The location of the fallback, checked under Spec *)

\* C24: every location the heuristic extractor returns (the location of a
\* record made without linked data) is no URL, is more than 3 and fewer
\* than 200 characters long and holds an upper-case letter, whichever
\* pattern produced it.
C24_LocationPlausible ==
    (Scraped /\ fetched.html.blocks = <<>> /\ outcome.data.location.some) =>
        /\ ~isUrl(outcome.data.location.v)
        /\ ~ParsesAsUrl(outcome.data.location.v)
        /\ StrLen(outcome.data.location.v) > 3
        /\ StrLen(outcome.data.location.v) < 200
        /\ HasUpper(outcome.data.location.v)

-----------------------------------------------------------------------------
(* Blocks that are not JSON, checked under SpecJsonLd *)

\* C25: a script block that is not valid JSON is skipped and the blocks
\* after it are still read in document order: when a block after it holds
\* the first Event entry of the page and that entry has a name (the blocks
\* that parse being well formed), the extractor returns the record of that
\* Event.
C25_MalformedBlockSkipped ==
    (pc = "done" /\ \A b \in 1..Len(arg.blocks) :
                        arg.blocks[b].k = "malformed" \/ WellFormedBlock(arg.blocks[b])) =>
        \A m, b \in 1..Len(arg.blocks) :
            (m < b /\ arg.blocks[m].k = "malformed") =>
                \A e \in 1..Len(arg.blocks[b].items) :
                    (FirstEvent(arg, b, e) /\ HasName(arg.blocks[b].items[e])) =>
                        /\ ret.found
                        /\ ret.data.name = SomeStr(arg.blocks[b].items[e].name.v[1])
                        /\ ret.data = eventDataOf(arg.blocks[b].items[e], tz)

\* C25 happens: after a block that does not parse, the Event of the second
\* block (its second entry) is returned with its location and its price
C25_Witness ==
    /\ pc = "done"
    /\ Len(arg.blocks) = 2
    /\ arg.blocks[1] = MalformedBlock
    /\ arg.blocks[2].k = "array"
    /\ Len(arg.blocks[2].items) = 2
    /\ arg.blocks[2].items[1] = PlaceEntry
    /\ arg.blocks[2].items[2].name = Scalar(Gala)
    /\ ret.found
    /\ ret.data.name = SomeStr(Gala)
    /\ ret.data.location = SomeStr(MainHall)
    /\ ret.data.price = SomeNum(Int2Num(100))

-----------------------------------------------------------------------------
(* The rating a conference is left with, checked under SpecDb *)

\* client c's call of op returns in this step
Returns(c, op) ==
    /\ calls[c].op = op
    /\ calls'[c].pc = "idle"
    /\ calls'[c].result = Resolved

\* C26: when updateConference returns, the conference has a rating row if
\* and only if one of the three ratings of the form is not null: with all
\* three null no row of the conference is left, otherwise its one row holds
\* exactly the three values of the form, null where the form has none.
C26_RatingFollowsForm ==
    [][\A c \in Clients :
          Returns(c, "updateConference") =>
             LET rows == {r \in ratings' : r.conference_id = calls[c].conference_id}
             IN  /\ calls[c].stars.some <=> rows # {}
                 /\ calls[c].stars.some =>
                       /\ Cardinality(rows) = 1
                       /\ \A r \in rows : r.stars = calls[c].stars.v]_vars

\* C26 happens: updateConference has written the row of a conference rated
\* <<1, null, null>>, found its rating and is about to write the ratings
\* <<null, 5, 5>> of the form over it
C26_Witness ==
    \E c \in Clients :
       /\ calls[c].op = "updateConference"
       /\ calls[c].pc = "update"
       /\ calls[c].stars = Ratings(<<0, 5, 5>>)
       /\ \E r \in ratings :
             r.conference_id = calls[c].conference_id /\ r.stars = <<1, 0, 0>>

-----------------------------------------------------------------------------
(* Calls that fail, checked under SpecDb *)

\* C27: createConference and updateConference are all or nothing: when the
\* call fails, the table conferences is as it was before the call.  Of
\* createConference: the row the call has inserted is not left in the table
\* when the call throws.
C27_AllOrNothing ==
    [][\A c \in Clients :
          (/\ calls[c].op = "createConference"
           /\ calls'[c].pc = "idle"
           /\ calls'[c].result.k = "threw")
             => calls[c].conference_id \notin conferences']_vars

-----------------------------------------------------------------------------
(* The people conferences are assigned to, checked under SpecData *)

\* every conference that is assigned is assigned to a person of the table
AssignedToExists ==
    \A a \in assigned_to : \E p \in people : p.id = a.person_id

\* a step that deletes a person deletes one no conference is assigned to
OnlyUnassignedDeleted ==
    \A p \in people \ people' : \A a \in assigned_to : a.person_id # p.id

\* C28: a person assigned to a conference is never deleted through the
\* data-management page, also when the list of conferences the page has
\* loaded is stale: in every state the assigned_to of every conference is
\* the id of a person of the table.
C28_AssignedPersonKept ==
    []AssignedToExists /\ [][OnlyUnassignedDeleted]_vars

\* C28 happens: the page showed conference 1 as unassigned when Delete was
\* pressed for person 1, to whom it had been assigned meanwhile; the delete
\* was refused and the person is still there
C28_Witness ==
    /\ page.pc = "idle"
    /\ page.toast = ErrorToast("Failed to delete person")
    /\ [id |-> 1, assigned_to |-> 0] \in page.conferences
    /\ [conference_id |-> 1, person_id |-> 1] \in assigned_to
    /\ \E p \in people : p.id = 1

-----------------------------------------------------------------------------
(* Properties of the link field of AddConferenceForm, checked under SpecUi *)

\* no two requests of the form are in flight, no two timers are armed, and
\* while a request of the mounted form is in flight the field is disabled
\* and no timer is armed
OneRequestOneTimer ==
    /\ Len(form.inFlight) <= 1
    /\ Len(form.timers) <= 1
    /\ (form.mounted /\ form.inFlight # <<>>) =>
          (form.isScraping /\ form.timers = <<>>)

\* a step of the mounted form that edits the link leaves no timer armed but
\* the one it arms,
\* and happens only while the field is enabled; a step that starts a
\* request starts it for a link other than the last one scraped
LinkFieldStep ==
    /\ (form'.mounted /\ form'.event_link # form.event_link) =>
          /\ ~form.isScraping
          /\ form'.timers \in
                {<<>>, <<[url |-> form'.event_link, last |-> form.lastScrapedUrl,
                          current |-> TRUE]>>}
    /\ Len(form'.inFlight) > Len(form.inFlight) =>
          /\ form'.inFlight[Len(form'.inFlight)] # form.lastScrapedUrl
          /\ form'.isScraping

\* C29: at any time at most one request started by the form is in flight:
\* every edit of the link clears the pending debounce timer before it arms
\* a new one, the field is disabled while a scrape is in progress, and a
\* link equal to the last one scraped with success is not scraped again.
C29_OneRequestInFlight == []OneRequestOneTimer /\ [][LinkFieldStep]_vars

\* one link has been scraped, the user has edited the link to another one
\* and typed a name, the timer has fired and the one request is in flight
C29_Witness ==
    /\ form.mounted
    /\ form.lastScrapedUrl = EventUrl
    /\ form.event_link = GalaUrl
    /\ form.inFlight = <<GalaUrl>>
    /\ form.timers = <<>>
    /\ form.isScraping

\* what the form takes of ScrapedEvent for each field it fills
ScrapedValues ==
    [name |-> ScrapedEvent.name.v, location |-> ScrapedEvent.location.v,
     start_date |-> ScrapedEvent.start_date, end_date |-> ScrapedEvent.end_date,
     notes |-> ScrapedEvent.description.v]

\* the response of a request of the mounted form arrives
ResponseArrives == form.mounted /\ Len(form'.inFlight) < Len(form.inFlight)

\* C30: when the response of a scrape arrives, every field of the form
\* that is not empty at that moment keeps its value, a field that changes
\* is one of name, location, start_date, end_date and notes, was empty and
\* takes the scraped value, and the price field keeps its value, empty or
\* not.
C30_AutoFillKeepsInput ==
    [][ResponseArrives =>
          /\ \A f \in FieldNames :
                form[f] # EmptyFields[f] => form'[f] = form[f]
          /\ \A f \in FieldNames :
                form'[f] # form[f] =>
                   (f \in DOMAIN ScrapedValues /\ form'[f] = ScrapedValues[f])
          /\ form'.price = form.price]_vars

\* a response with every field and a price has arrived: the name the user
\* had typed is kept, the empty fields are filled, the price is still empty
C30_Witness ==
    /\ form.mounted /\ form.outcome = "scraped" /\ form.inFlight = <<>>
    /\ form.name = AiSummit
    /\ form.location = StockholmSweden
    /\ form.start_date = ScrapedEvent.start_date
    /\ form.end_date = ScrapedEvent.end_date
    /\ form.notes = ScrapedEvent.description.v
    /\ ScrapedEvent.price.some /\ form.price = <<>>

=============================================================================
